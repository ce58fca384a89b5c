------------------------- MODULE MacUsbEngine_proof -------------------------
(***************************************************************************)
(* Proofs about the two halves of OpenA8DJUSBEngine.                        *)
(*                                                                         *)
(* Its streams: what stop() and the captures of UsbEngineLifecycle can rely *)
(* on, for any depth, lead and number of sessions.  The properties are not  *)
(* inductive.  That the counters are exact needs to know that they do not   *)
(* wrap, which is a bound on the captures of all the sessions so far; and   *)
(* that start() may reset the playback counter needs to know that after a   *)
(* stop that drained no block is about to submit.                           *)
(*                                                                         *)
(* Its IPC server and control channel: who holds a descriptor, what close   *)
(* leaves behind and whose reply is taken, for every number of connections, *)
(* descriptors, slots, codes and commands.                                  *)
(***************************************************************************)
EXTENDS UsbEngineLifecycle, MacControlPlane, FiniteSums, SequenceTheorems

(***************************************************************************)
(* The inductive invariant                                                 *)
(***************************************************************************)
Kinds == {"none", "worker", "retry", "sentinel", "capture", "playback"}
Submitting == {"capture-entry", "capture-reserve", "capture-submit", "capture-failed"}
Places == Submitting \cup {"end", "worker-loop", "signal", "release", "pacing", "playback-loop",
                           "playback-reserve", "playback-submit", "load", "subtract"}
ApiPlaces == {"idle", "reset", "published", "abort", "queue-retires", "playback-drains",
              "capture-drains", "close", "closed"}
Blocks == [kind : Kinds, pc : Places, left : Nat]

\* A block that waits is at its first step, and a worker has all its rounds to go.
Waits(b) ==
    /\ b \in Blocks /\ b.kind # "none"
    /\ b.kind = "worker" => b.pc = "worker-loop" /\ b.left = CaptureDepth
    /\ b.kind = "retry" => b.pc = "capture-entry"
    /\ b.kind = "sentinel" => b.pc = "signal"
    /\ b.kind = "capture" => b.pc = "release"
    /\ b.kind = "playback" => b.pc = "load"

\* Where a running block of each kind can be.
Runs(t) ==
    /\ t \in Blocks
    /\ t.kind = "none" => t.pc = "end" /\ t.left = 0
    /\ t.kind = "worker" => t.pc \in Submitting \cup {"worker-loop"}
    /\ t.kind = "retry" => t.pc \in Submitting
    /\ t.kind = "sentinel" => t.pc = "signal"
    /\ t.kind = "capture" => t.pc \in Submitting \cup {"release", "pacing", "playback-loop",
                                                       "playback-reserve", "playback-submit"}
    /\ t.kind = "playback" => t.pc \in {"load", "subtract"}

QueueInv == queue \in Seq(Blocks) /\ \A i \in DOMAIN queue : Waits(queue[i])

Types ==
    /\ flag \in [streaming : BOOLEAN, running : BOOLEAN, unsafe : BOOLEAN]
    /\ api \in [pc : ApiPlaces, closing : BOOLEAN, stopped : {"never", "yes", "no"}]
    /\ inFlight \in [Directions -> 0 .. CounterSize - 1]
    /\ pipe \in [Directions -> Nat] /\ retries \in Nat
    /\ used \in [sessions : Nat, stops : Nat, failures : Nat, starved : Nat]
    /\ used.sessions <= MaxSessions
    /\ Runs(task)
    /\ QueueInv

\* A stop that was asked for has cleared _streaming, and so has one that has answered.
Stopped == {"abort", "queue-retires", "playback-drains", "capture-drains", "close", "closed",
            "reset"}
ApiInv ==
    /\ api.pc \in Stopped => ~flag.streaming
    /\ api.pc = "published" => flag.streaming
    /\ api.stopped # "never" => ~flag.streaming

\* What the captures of all the sessions so far come to.
Budget == used.sessions * CaptureDepth

\* The capture counter is exact and cannot wrap: every session adds at most its depth, and keeps
\* it but for the captures that found no transfer.
CaptureInv ==
    /\ inFlight["capture"] = CaptureAlive
    /\ Chains + (IF api.pc = "reset" THEN CaptureDepth ELSE 0) <= Budget
    /\ flag.streaming => Chains + used.starved >= CaptureDepth

\* The playback counter is exact while every session drained, and the lead was looked up in it.
PlaybackInv ==
    ~flag.unsafe =>
        /\ inFlight["playback"] = PlaybackAlive
        /\ PlaybackAlive <= Lead
        /\ task.pc = "playback-reserve" => inFlight["playback"] < Lead

\* Past its checks of _streaming, a block submits, whatever stop() does meanwhile.
Hot == task.pc \in {"capture-reserve", "capture-submit", "playback-reserve", "playback-submit"}

\* Once the queue has retired no block submits, and what has drained stays drained.
DrainInv ==
    /\ api.pc \in {"playback-drains", "capture-drains", "close", "closed"} => ~Hot
    /\ api.pc \in {"close", "closed"} => api.stopped = "yes"
    /\ api.pc = "capture-drains" => flag.unsafe \/ PlaybackAlive = 0
    /\ api.stopped = "yes" => ~Hot /\ CaptureAlive = 0 /\ (flag.unsafe \/ PlaybackAlive = 0)
    /\ api.pc \in {"idle", "reset"} /\ ~flag.streaming /\ ~flag.unsafe
         => ~Hot /\ PlaybackAlive = 0

IInv == Types /\ ApiInv /\ CaptureInv /\ PlaybackInv /\ DrainInv

(***************************************************************************)
(* Counting the blocks that wait                                           *)
(***************************************************************************)
LEMMA KindsAreFinite ==
    ASSUME NEW q \in Seq(Blocks), NEW kind
    PROVE  IsFiniteSet(OfKind(q, kind)) /\ Cardinality(OfKind(q, kind)) \in Nat
  <1>1. DOMAIN q = 1 .. Len(q) /\ Len(q) \in Nat
    OBVIOUS
  <1>2. IsFiniteSet(1 .. Len(q))
    BY <1>1, FS_Interval
  <1>3. OfKind(q, kind) \in SUBSET (1 .. Len(q))
    BY <1>1 DEF OfKind
  <1> QED BY <1>2, <1>3, FS_Subset, FS_CardinalityType

LEMMA CountAppended ==
    ASSUME NEW q \in Seq(Blocks), NEW b \in Blocks, NEW kind
    PROVE  Cardinality(OfKind(Append(q, b), kind))
             = Cardinality(OfKind(q, kind)) + (IF b.kind = kind THEN 1 ELSE 0)
  <1> DEFINE n == Len(q) + 1
  <1>1. /\ DOMAIN q = 1 .. Len(q) /\ Len(q) \in Nat
        /\ DOMAIN Append(q, b) = 1 .. n
        /\ \A i \in 1 .. Len(q) : Append(q, b)[i] = q[i]
        /\ Append(q, b)[n] = b
    OBVIOUS
  <1>2. n \notin OfKind(q, kind)
    BY <1>1 DEF OfKind
  <1>3. OfKind(Append(q, b), kind)
          = IF b.kind = kind THEN OfKind(q, kind) \cup {n} ELSE OfKind(q, kind)
    BY <1>1 DEF OfKind
  <1>4. IsFiniteSet(OfKind(q, kind)) /\ Cardinality(OfKind(q, kind)) \in Nat
    BY KindsAreFinite
  <1>5. Cardinality(OfKind(q, kind) \cup {n}) = Cardinality(OfKind(q, kind)) + 1
    BY <1>2, <1>4, FS_AddElement
  <1> HIDE DEF n
  <1> QED BY <1>3, <1>4, <1>5

LEMMA CountTaken ==
    ASSUME NEW q \in Seq(Blocks), q # <<>>, NEW kind
    PROVE  /\ Cardinality(OfKind(q, kind))
                = Cardinality(OfKind(Tail(q), kind)) + (IF Head(q).kind = kind THEN 1 ELSE 0)
           /\ Cardinality(OfKind(Tail(q), kind)) \in Nat
  <1> DEFINE rest == OfKind(Tail(q), kind)
             later == OfKind(q, kind) \ {1}
             shift == [i \in rest |-> i + 1]
  <1>1. /\ Tail(q) \in Seq(Blocks) /\ Len(q) \in Nat /\ Len(q) >= 1
        /\ DOMAIN q = 1 .. Len(q) /\ DOMAIN Tail(q) = 1 .. (Len(q) - 1)
        /\ \A i \in 1 .. (Len(q) - 1) : Tail(q)[i] = q[i + 1]
        /\ Head(q) = q[1]
    OBVIOUS
  <1>2. IsFiniteSet(rest) /\ Cardinality(rest) \in Nat
    BY <1>1, KindsAreFinite
  <1>3. shift \in Bijection(rest, later)
    <2>1. \A i \in rest : i \in Int /\ i + 1 \in later
      BY <1>1 DEF OfKind
    <2>2. \A j \in later : j - 1 \in rest /\ (j - 1) + 1 = j
      BY <1>1 DEF OfKind
    <2> HIDE DEF rest, later
    <2>3. shift \in Injection(rest, later)
      BY <2>1 DEF Injection, IsInjective
    <2>4. shift \in Surjection(rest, later)
      BY <2>1, <2>2 DEF Surjection
    <2> QED BY <2>3, <2>4 DEF Bijection
  <1>4. Cardinality(later) = Cardinality(rest) /\ IsFiniteSet(later)
    <2>1. ExistsBijection(rest, later)
      BY <1>3 DEF ExistsBijection
    <2> HIDE DEF rest, later, shift
    <2> QED BY <1>2, <2>1, FS_Bijection
  <1>5. OfKind(q, kind) = IF Head(q).kind = kind THEN later \cup {1} ELSE later
    BY <1>1 DEF OfKind
  <1>6. 1 \notin later
    OBVIOUS
  <1> HIDE DEF rest, later
  <1>7. Cardinality(later \cup {1}) = Cardinality(later) + 1
    BY <1>4, <1>6, FS_AddElement
  <1>8. Cardinality(OfKind(q, kind)) = Cardinality(rest) + (IF Head(q).kind = kind THEN 1 ELSE 0)
    BY <1>2, <1>4, <1>5, <1>7
  <1> QED BY <1>2, <1>8 DEF rest

\* The fold over the workers is a sum, and they all have the whole depth to go.
LEMMA RoundsAreDepths ==
    ASSUME NEW q \in Seq(Blocks), \A i \in DOMAIN q : Waits(q[i])
    PROVE  /\ Rounds(q) = Cardinality(OfKind(q, "worker")) * CaptureDepth
           /\ Rounds(q) \in Nat
  <1> DEFINE U == OfKind(q, "worker")
             F == [i \in U |-> q[i].left]
             Step(g) == [s \in SUBSET U |->
                           IF s = {} THEN 0
                           ELSE q[CHOOSE x \in s : TRUE].left
                                  + g[s \ {CHOOSE x \in s : TRUE}]]
  <1>1. Rounds(q) = (CHOOSE g : g = Step(g))[U]
    BY DEF Rounds, MapThenSumSet, MapThenFoldSet
  <1>2. ASSUME NEW g
        PROVE  Step(g) = TotalsFrom(g, F, U)
    <2>1. ASSUME NEW s \in SUBSET U, s # {}
          PROVE  q[CHOOSE x \in s : TRUE].left = F[Picked(s)]
      <3>1. Picked(s) \in s
        BY <2>1 DEF Picked
      <3>2. F[Picked(s)] = q[Picked(s)].left
        BY <3>1
      <3> QED BY <3>2 DEF Picked
    <2> HIDE DEF F, U
    <2>2. \A s \in SUBSET U :
              (IF s = {} THEN 0 ELSE q[CHOOSE x \in s : TRUE].left
                                       + g[s \ {CHOOSE x \in s : TRUE}])
              = (IF s = {} THEN 0 ELSE F[Picked(s)] + g[s \ {Picked(s)}])
      BY <2>1 DEF Picked
    <2> QED BY <2>2 DEF TotalsFrom
  <1>3. \A i \in U : F[i] = CaptureDepth
    BY DEF OfKind, Waits
  <1>4. IsFiniteSet(U) /\ Cardinality(U) \in Nat
    BY KindsAreFinite
  <1> HIDE DEF F, U, Step
  <1>5. (CHOOSE g : g = Step(g)) = (CHOOSE g : AreTotals(g, F, U))
    BY <1>2 DEF AreTotals
  <1>6. Rounds(q) = SumOver(F, U)
    BY <1>1, <1>5 DEF SumOver
  <1>7. CaptureDepth \in Nat
    BY EngineConstants
  <1>8. SumOver(F, U) = Cardinality(U) * CaptureDepth
    BY <1>3, <1>4, <1>7, SumConstant
  <1> DEFINE n == Cardinality(U)
  <1>9. n * CaptureDepth \in Nat
    <2>1. n \in Nat
      BY <1>4
    <2> HIDE DEF n
    <2> QED BY <2>1, <1>7
  <1> QED BY <1>6, <1>8, <1>9 DEF U

LEMMA RoundsValues ==
    /\ QueueInv => /\ Rounds(queue) = Cardinality(OfKind(queue, "worker")) * CaptureDepth
                   /\ Rounds(queue) \in Nat
    /\ QueueInv' => Rounds(queue)' = Cardinality(OfKind(queue', "worker")) * CaptureDepth
  <1>1. QueueInv => queue \in Seq(Blocks) /\ \A i \in DOMAIN queue : Waits(queue[i])
    BY DEF QueueInv
  <1>2. QueueInv' => queue' \in Seq(Blocks) /\ \A i \in DOMAIN queue' : Waits(queue'[i])
    BY DEF QueueInv
  <1>3. Rounds(queue)' = Rounds(queue')
    OBVIOUS
  <1> QED BY <1>1, <1>2, <1>3, RoundsAreDepths

\* The blocks of each kind that wait, and the rounds of the workers among them.
LEMMA QueueValues ==
    ASSUME QueueInv
    PROVE  /\ Waiting("capture") \in Nat /\ Waiting("playback") \in Nat
           /\ Waiting("retry") \in Nat /\ Rounds(queue) \in Nat
  <1>1. ASSUME NEW kind
        PROVE  Waiting(kind) \in Nat
    BY KindsAreFinite DEF QueueInv, Waiting
  <1> QED BY <1>1, RoundsValues

LEMMA QueueKept ==
    ASSUME QueueInv, queue' = queue
    PROVE  /\ QueueInv'
           /\ Waiting("capture")' = Waiting("capture")
           /\ Waiting("playback")' = Waiting("playback")
           /\ Waiting("retry")' = Waiting("retry")
           /\ Rounds(queue)' = Rounds(queue)
  <1>1. QueueInv'
    BY DEF QueueInv
  <1>2. ASSUME NEW kind
        PROVE  Waiting(kind)' = Waiting(kind)
    BY DEF Waiting
  <1> QED BY <1>1, <1>2, RoundsValues

LEMMA QueueAppended ==
    ASSUME QueueInv, NEW b, Waits(b), queue' = Append(queue, b)
    PROVE  /\ QueueInv'
           /\ Waiting("capture")' = Waiting("capture") + (IF b.kind = "capture" THEN 1 ELSE 0)
           /\ Waiting("playback")' = Waiting("playback") + (IF b.kind = "playback" THEN 1 ELSE 0)
           /\ Waiting("retry")' = Waiting("retry") + (IF b.kind = "retry" THEN 1 ELSE 0)
           /\ Rounds(queue)' = Rounds(queue) + (IF b.kind = "worker" THEN CaptureDepth ELSE 0)
  <1>1. queue \in Seq(Blocks) /\ b \in Blocks
    BY DEF QueueInv, Waits
  <1>2. QueueInv'
    <2>1. /\ Append(queue, b) \in Seq(Blocks)
          /\ \A i \in DOMAIN Append(queue, b) :
                Append(queue, b)[i] = b \/ (i \in DOMAIN queue /\ Append(queue, b)[i] = queue[i])
      BY <1>1
    <2> QED BY <2>1 DEF QueueInv
  <1>3. ASSUME NEW kind
        PROVE  Waiting(kind)' = Waiting(kind) + (IF b.kind = kind THEN 1 ELSE 0)
    <2>1. /\ Waiting(kind) = Cardinality(OfKind(queue, kind))
          /\ Waiting(kind)' = Cardinality(OfKind(queue', kind))
      BY DEF Waiting
    <2>2. Cardinality(OfKind(Append(queue, b), kind))
            = Cardinality(OfKind(queue, kind)) + (IF b.kind = kind THEN 1 ELSE 0)
      BY <1>1, CountAppended
    <2> QED BY <2>1, <2>2
  <1>4. Rounds(queue)' = Rounds(queue) + (IF b.kind = "worker" THEN CaptureDepth ELSE 0)
    <2> DEFINE n == Cardinality(OfKind(queue, "worker"))
               m == Cardinality(OfKind(Append(queue, b), "worker"))
    <2>1. m = n + (IF b.kind = "worker" THEN 1 ELSE 0)
      BY <1>1, CountAppended
    <2>2. n \in Nat /\ CaptureDepth \in Nat
      BY <1>1, KindsAreFinite, EngineConstants
    <2>3. Rounds(queue) = n * CaptureDepth /\ Rounds(queue)' = m * CaptureDepth
      BY <1>2, RoundsValues
    <2> HIDE DEF n, m
    <2>4. (n + 1) * CaptureDepth = n * CaptureDepth + CaptureDepth
      BY <2>2
    <2>5. n * CaptureDepth \in Nat
      BY <2>2
    <2> QED BY <2>1, <2>2, <2>3, <2>4, <2>5
  <1> QED BY <1>2, <1>3, <1>4

LEMMA QueueTaken ==
    ASSUME QueueInv, queue # <<>>, queue' = Tail(queue)
    PROVE  LET b == Head(queue)
           IN  /\ Waits(b) /\ QueueInv'
               /\ Waiting("capture") = Waiting("capture")' + (IF b.kind = "capture" THEN 1 ELSE 0)
               /\ Waiting("playback")
                     = Waiting("playback")' + (IF b.kind = "playback" THEN 1 ELSE 0)
               /\ Waiting("retry") = Waiting("retry")' + (IF b.kind = "retry" THEN 1 ELSE 0)
               /\ Rounds(queue)
                     = Rounds(queue)' + (IF b.kind = "worker" THEN CaptureDepth ELSE 0)
  <1> DEFINE b == Head(queue)
  <1>1. queue \in Seq(Blocks)
    BY DEF QueueInv
  <1>2. QueueInv' /\ Waits(b)
    <2>1. /\ Tail(queue) \in Seq(Blocks)
          /\ \A i \in DOMAIN Tail(queue) : i + 1 \in DOMAIN queue /\ Tail(queue)[i] = queue[i + 1]
          /\ 1 \in DOMAIN queue /\ Head(queue) = queue[1]
      BY <1>1
    <2> QED BY <2>1 DEF QueueInv
  <1>3. ASSUME NEW kind
        PROVE  Waiting(kind) = Waiting(kind)' + (IF b.kind = kind THEN 1 ELSE 0)
    <2>1. /\ Waiting(kind) = Cardinality(OfKind(queue, kind))
          /\ Waiting(kind)' = Cardinality(OfKind(queue', kind))
      BY DEF Waiting
    <2>2. Cardinality(OfKind(queue, kind))
            = Cardinality(OfKind(Tail(queue), kind)) + (IF b.kind = kind THEN 1 ELSE 0)
      BY <1>1, CountTaken
    <2> QED BY <2>1, <2>2
  <1>4. Rounds(queue) = Rounds(queue)' + (IF b.kind = "worker" THEN CaptureDepth ELSE 0)
    <2> DEFINE n == Cardinality(OfKind(queue, "worker"))
               m == Cardinality(OfKind(Tail(queue), "worker"))
    <2>1. n = m + (IF b.kind = "worker" THEN 1 ELSE 0) /\ m \in Nat
      BY <1>1, CountTaken
    <2>2. CaptureDepth \in Nat
      BY EngineConstants
    <2>3. Rounds(queue) = n * CaptureDepth /\ Rounds(queue)' = m * CaptureDepth
      BY <1>2, RoundsValues
    <2> HIDE DEF n, m
    <2>4. (m + 1) * CaptureDepth = m * CaptureDepth + CaptureDepth
      BY <2>1, <2>2
    <2>5. m * CaptureDepth \in Nat
      BY <2>1, <2>2
    <2> QED BY <2>1, <2>2, <2>3, <2>4, <2>5
  <1> QED BY <1>2, <1>3, <1>4

(***************************************************************************)
(* Numbers                                                                 *)
(***************************************************************************)
LEMMA Constants ==
    /\ CaptureDepth \in Nat /\ CaptureDepth >= 1 /\ MaxSessions \in Nat
    /\ Lead \in Nat /\ Lead >= 2 /\ CounterSize \in Nat /\ Lead + 1 < CounterSize
  BY EngineConstants

LEMMA Remainders ==
    /\ \A x \in 0 .. CounterSize - 1 : x % CounterSize = x
    /\ \A x \in Int : x % CounterSize \in 0 .. CounterSize - 1
  BY Constants

LEMMA BudgetHolds ==
    ASSUME used.sessions \in Nat, used.sessions <= MaxSessions
    PROVE  Budget \in Nat /\ Budget < CounterSize
  <1> DEFINE n == used.sessions
             k == MaxSessions - n
  <1>1. n \in Nat /\ k \in Nat /\ CaptureDepth \in Nat /\ MaxSessions = n + k
    BY Constants
  <1>2. Budget = n * CaptureDepth /\ (n + k) * CaptureDepth < CounterSize
    BY <1>1, CaptureCounterHolds DEF Budget
  <1> HIDE DEF n, k
  <1>3. n * CaptureDepth \in Nat /\ k * CaptureDepth \in Nat
    BY <1>1
  <1>4. (n + k) * CaptureDepth = n * CaptureDepth + k * CaptureDepth
    BY <1>1
  <1> QED BY <1>2, <1>3, <1>4, Constants

\* The parts of the counts that the block that is running stands for, and the captures apart
\* from those of a worker that is about to be queued.
Left == IF task.kind = "worker" THEN task.left ELSE 0
Alive == Running({"capture-submit", "release"})
Going == Running({"capture-entry", "capture-reserve", "capture-failed"})
Playing == Running({"playback-submit", "load", "subtract"})
Queued == IF api.pc = "published" THEN CaptureDepth ELSE 0
Carried == CaptureAlive + retries + Waiting("retry") + Rounds(queue) + Left + Going

PartsAdd ==
    /\ CaptureAlive = pipe["capture"] + Waiting("capture") + Alive
    /\ PlaybackAlive = pipe["playback"] + Waiting("playback") + Playing
    /\ Chains = Carried + Queued
    /\ Left \in Nat /\ Alive \in Nat /\ Going \in Nat /\ Playing \in Nat
    /\ Queued \in Nat /\ Carried \in Nat
    /\ CaptureAlive \in Nat /\ PlaybackAlive \in Nat /\ Chains \in Nat
    /\ pipe["capture"] \in Nat /\ pipe["playback"] \in Nat /\ retries \in Nat
    /\ Waiting("capture") \in Nat /\ Waiting("playback") \in Nat
    /\ Waiting("retry") \in Nat /\ Rounds(queue) \in Nat

LEMMA Parts == Types => PartsAdd
  <1> SUFFICES ASSUME Types PROVE PartsAdd
    OBVIOUS
  <1>1. task.left \in Nat
    BY DEF Types, Runs, Blocks
  <1>2. pipe["capture"] \in Nat /\ pipe["playback"] \in Nat /\ retries \in Nat
    BY DEF Types, Directions
  <1>3. QueueInv
    BY DEF Types
  <1>4. Left \in Nat /\ Alive \in Nat /\ Going \in Nat /\ Playing \in Nat /\ Queued \in Nat
    BY <1>1, Constants DEF Left, Alive, Going, Playing, Queued, Running
  <1>5. /\ Waiting("capture") \in Nat /\ Waiting("playback") \in Nat
        /\ Waiting("retry") \in Nat /\ Rounds(queue) \in Nat
    BY <1>3, QueueValues
  <1>6. /\ CaptureAlive = pipe["capture"] + Waiting("capture") + Alive
        /\ PlaybackAlive = pipe["playback"] + Waiting("playback") + Playing
    BY DEF CaptureAlive, PlaybackAlive, Alive, Playing
  <1>7. CaptureAlive \in Nat /\ PlaybackAlive \in Nat
    BY <1>2, <1>4, <1>5, <1>6
  <1>8. Carried \in Nat
    BY <1>2, <1>4, <1>5, <1>7 DEF Carried
  <1>9. Chains = CaptureAlive + retries + Waiting("retry") + (Rounds(queue) + Left + Queued) + Going
    BY DEF Chains, WorkersLeft, Left, Queued, Going
  <1>10. Chains = Carried + Queued
    BY <1>2, <1>4, <1>5, <1>7, <1>9 DEF Carried
  <1> QED BY <1>2, <1>4, <1>5, <1>6, <1>7, <1>8, <1>10 DEF PartsAdd

LEMMA PartsAfter == Types' => PartsAdd'
  BY Parts, PTL

(***************************************************************************)
(* The calls: start, stop and close leave the work as it is                *)
(***************************************************************************)
LEMMA SameWork ==
    ASSUME QueueInv, UNCHANGED <<pipe, queue, task, retries>>
    PROVE  /\ CaptureAlive' = CaptureAlive /\ PlaybackAlive' = PlaybackAlive
           /\ Carried' = Carried
           /\ Hot' <=> Hot
           /\ QueueInv'
  <1>1. Left' = Left /\ Alive' = Alive /\ Going' = Going /\ Playing' = Playing
    BY DEF Left, Alive, Going, Playing, Running
  <1>2. CaptureAlive' = CaptureAlive /\ PlaybackAlive' = PlaybackAlive
    BY QueueKept DEF CaptureAlive, PlaybackAlive, Running
  <1>3. Carried' = Carried
    BY <1>1, <1>2, QueueKept DEF Carried
  <1>4. Hot' <=> Hot
    BY DEF Hot
  <1> QED BY <1>2, <1>3, <1>4, QueueKept

Calls == \/ EnsureOpen \/ ResetForStart \/ PublishStart \/ \E closing \in BOOLEAN : Stop(closing)
         \/ LoadPlayback \/ StopDrained \/ LoadAgain \/ StopTimesOut
         \/ CloseRefused \/ CloseUsb \/ Ep1Deadline

Settings ==
    /\ flag \in [streaming : BOOLEAN, running : BOOLEAN, unsafe : BOOLEAN]
    /\ api \in [pc : ApiPlaces, closing : BOOLEAN, stopped : {"never", "yes", "no"}]
    /\ inFlight \in [Directions -> 0 .. CounterSize - 1]
    /\ used \in [sessions : Nat, stops : Nat, failures : Nat, starved : Nat]
    /\ used.sessions <= MaxSessions

LEMMA CallSettings ==
    ASSUME Settings, Calls
    PROVE  Settings'
  <1>1. CASE EnsureOpen
    BY <1>1, Constants DEF Settings, ApiPlaces, Directions, EnsureOpen
  <1>2. CASE ResetForStart
    <2>1. flag' \in [streaming : BOOLEAN, running : BOOLEAN, unsafe : BOOLEAN]
      BY <1>2 DEF Settings, ResetForStart
    <2>2. api' \in [pc : ApiPlaces, closing : BOOLEAN, stopped : {"never", "yes", "no"}]
      BY <1>2 DEF Settings, ApiPlaces, ResetForStart, Goto
    <2>3. inFlight' \in [Directions -> 0 .. CounterSize - 1]
      <3>1. 0 \in 0 .. CounterSize - 1
        BY Constants
      <3> QED BY <1>2, <3>1 DEF Settings, ResetForStart
    <2>4. /\ used' \in [sessions : Nat, stops : Nat, failures : Nat, starved : Nat]
          /\ used'.sessions <= MaxSessions
      <3>1. /\ used' = [used EXCEPT !.sessions = @ + 1, !.starved = 0]
            /\ used.sessions < MaxSessions
            /\ used \in [sessions : Nat, stops : Nat, failures : Nat, starved : Nat]
        BY <1>2 DEF Settings, ResetForStart
      <3>2. used.sessions \in Nat /\ used.sessions + 1 \in Nat /\ used.sessions + 1 <= MaxSessions
        BY <3>1, Constants
      <3> QED BY <3>1, <3>2
    <2> QED BY <2>1, <2>2, <2>3, <2>4 DEF Settings
  <1>3. CASE PublishStart
    BY <1>3, Constants DEF Settings, ApiPlaces, Directions, PublishStart
  <1>4. ASSUME NEW closing \in BOOLEAN, Stop(closing) PROVE Settings'
    <2>1. flag' \in [streaming : BOOLEAN, running : BOOLEAN, unsafe : BOOLEAN]
      BY <1>4 DEF Settings, Stop
    <2>2. api' \in [pc : ApiPlaces, closing : BOOLEAN, stopped : {"never", "yes", "no"}]
      BY <1>4 DEF Settings, ApiPlaces, Stop, StopReturns
    <2>3. inFlight' = inFlight
      BY <1>4 DEF Stop
    <2>4. /\ used' \in [sessions : Nat, stops : Nat, failures : Nat, starved : Nat]
          /\ used'.sessions <= MaxSessions
      BY <1>4, Constants DEF Settings, Stop
    <2> QED BY <2>1, <2>2, <2>3, <2>4 DEF Settings
  <1>5. CASE LoadPlayback
    BY <1>5, Constants DEF Settings, ApiPlaces, Directions, LoadPlayback, Goto
  <1>6. CASE StopDrained
    BY <1>6, Constants DEF Settings, ApiPlaces, Directions, StopDrained, StopReturns, CaptureDrained
  <1>7. CASE LoadAgain
    BY <1>7, Constants DEF Settings, ApiPlaces, Directions, LoadAgain, Goto
  <1>8. CASE StopTimesOut
    BY <1>8, Constants DEF Settings, ApiPlaces, Directions, StopTimesOut, StopReturns
  <1>9. CASE CloseRefused
    BY <1>9, Constants DEF Settings, ApiPlaces, Directions, CloseRefused, StopReturns
  <1>10. CASE CloseUsb
    BY <1>10, Constants DEF Settings, ApiPlaces, Directions, CloseUsb, Goto
  <1>11. CASE Ep1Deadline
    BY <1>11, Constants DEF Settings, ApiPlaces, Directions, Ep1Deadline
  <1> QED BY <1>1, <1>2, <1>3, <1>4, <1>5, <1>6, <1>7, <1>8, <1>9, <1>10, <1>11 DEF Calls

LEMMA CallHolds ==
    ASSUME IInv, Calls
    PROVE  IInv'
  <1>1. UNCHANGED <<pipe, queue, task, retries>>
    BY DEF Calls, EnsureOpen, ResetForStart, PublishStart, Stop, LoadPlayback, StopDrained,
           LoadAgain, StopTimesOut, CloseRefused, CloseUsb, Ep1Deadline
  <1>2. Types /\ QueueInv
    BY DEF IInv, Types
  <1>3. /\ CaptureAlive' = CaptureAlive /\ PlaybackAlive' = PlaybackAlive
        /\ Carried' = Carried
        /\ Hot' <=> Hot
        /\ QueueInv'
    BY <1>1, <1>2, SameWork
  <1>4. Types'
    <2>1. Settings'
      BY <1>2, CallSettings DEF Types, Settings
    <2>2. /\ pipe' \in [Directions -> Nat] /\ retries' \in Nat
          /\ Runs(task')
      BY <1>1, <1>2 DEF Types
    <2> QED BY <1>3, <2>1, <2>2 DEF Types, Settings
  <1>5. PartsAdd /\ PartsAdd'
    BY <1>2, <1>4, Parts, PartsAfter
  <1>6. Budget \in Nat /\ Budget < CounterSize
    BY <1>2, BudgetHolds DEF Types
  <1>7. Calls => ApiInv' /\ CaptureInv' /\ PlaybackInv' /\ DrainInv'
    <2>1. CASE EnsureOpen
      <3>1. ApiInv'
        BY <1>2, <2>1 DEF IInv, Types, ApiInv, Stopped, EnsureOpen, CanOpen
      <3>2. CaptureInv'
        BY <1>2, <1>3, <1>5, <1>6, <2>1, Constants
        DEF IInv, ApiInv, Stopped, CaptureInv, Budget, Queued, PartsAdd, Types, Directions, EnsureOpen, CanOpen
      <3>3. PlaybackInv'
        BY <1>1, <1>2, <1>3, <1>5, <2>1, Constants
        DEF IInv, ApiInv, Stopped, PlaybackInv, DrainInv, PartsAdd, Types, Directions, EnsureOpen, CanOpen
      <3>4. DrainInv'
        BY <1>1, <1>2, <1>3, <1>5, <2>1, Constants
        DEF IInv, ApiInv, Stopped, CaptureInv, PlaybackInv, DrainInv, PartsAdd, Types, Directions, EnsureOpen, CanOpen
      <3> QED BY <3>1, <3>2, <3>3, <3>4
    <2>2. CASE ResetForStart
      <3>1. ApiInv'
        BY <1>2, <2>2 DEF IInv, Types, ApiInv, Stopped, ResetForStart, Goto, CanOpen
      <3>2. CaptureInv'
        BY <1>2, <1>3, <1>5, <1>6, <2>2, Constants
        DEF IInv, ApiInv, Stopped, CaptureInv, Budget, Queued, PartsAdd, Types, Directions, ResetForStart, Goto, CanOpen
      <3>3. PlaybackInv'
        BY <1>1, <1>2, <1>3, <1>5, <2>2, Constants
        DEF IInv, ApiInv, Stopped, PlaybackInv, DrainInv, PartsAdd, Types, Directions, ResetForStart, Goto, CanOpen
      <3>4. DrainInv'
        BY <1>1, <1>2, <1>3, <1>5, <2>2, Constants
        DEF IInv, ApiInv, Stopped, CaptureInv, PlaybackInv, DrainInv, PartsAdd, Types, Directions, ResetForStart, Goto, CanOpen
      <3> QED BY <3>1, <3>2, <3>3, <3>4
    <2>3. CASE PublishStart
      <3>1. ApiInv'
        BY <1>2, <2>3 DEF IInv, Types, ApiInv, Stopped, PublishStart
      <3>2. CaptureInv'
        BY <1>2, <1>3, <1>5, <1>6, <2>3, Constants
        DEF IInv, ApiInv, Stopped, CaptureInv, Budget, Queued, PartsAdd, Types, Directions, PublishStart
      <3>3. PlaybackInv'
        BY <1>1, <1>2, <1>3, <1>5, <2>3, Constants
        DEF IInv, ApiInv, Stopped, PlaybackInv, DrainInv, PartsAdd, Types, Directions, PublishStart
      <3>4. DrainInv'
        BY <1>1, <1>2, <1>3, <1>5, <2>3, Constants
        DEF IInv, ApiInv, Stopped, CaptureInv, PlaybackInv, DrainInv, PartsAdd, Types, Directions, PublishStart
      <3> QED BY <3>1, <3>2, <3>3, <3>4
    <2>4. ASSUME NEW closing \in BOOLEAN, Stop(closing)
          PROVE  ApiInv' /\ CaptureInv' /\ PlaybackInv' /\ DrainInv'
      <3>1. ApiInv'
        BY <1>2, <2>4 DEF IInv, Types, ApiInv, Stopped, Stop, StopReturns
      <3>2. CaptureInv'
        BY <1>2, <1>3, <1>5, <1>6, <2>4, Constants
        DEF IInv, ApiInv, Stopped, CaptureInv, Budget, Queued, PartsAdd, Types, Directions, Stop, StopReturns
      <3>3. PlaybackInv'
        BY <1>1, <1>2, <1>3, <1>5, <2>4, Constants
        DEF IInv, ApiInv, Stopped, PlaybackInv, DrainInv, PartsAdd, Types, Directions, Stop, StopReturns
      <3>4. DrainInv'
        BY <1>1, <1>2, <1>3, <1>5, <2>4, Constants
        DEF IInv, ApiInv, Stopped, CaptureInv, PlaybackInv, DrainInv, PartsAdd, Types, Directions, Stop, StopReturns
      <3> QED BY <3>1, <3>2, <3>3, <3>4
    <2>5. CASE LoadPlayback
      <3>1. ApiInv'
        BY <1>2, <2>5 DEF IInv, Types, ApiInv, Stopped, LoadPlayback, Goto
      <3>2. CaptureInv'
        BY <1>2, <1>3, <1>5, <1>6, <2>5, Constants
        DEF IInv, ApiInv, Stopped, CaptureInv, Budget, Queued, PartsAdd, Types, Directions, LoadPlayback, Goto
      <3>3. PlaybackInv'
        BY <1>1, <1>2, <1>3, <1>5, <2>5, Constants
        DEF IInv, ApiInv, Stopped, PlaybackInv, DrainInv, PartsAdd, Types, Directions, LoadPlayback, Goto
      <3>4. DrainInv'
        BY <1>1, <1>2, <1>3, <1>5, <2>5, Constants
        DEF IInv, ApiInv, Stopped, CaptureInv, PlaybackInv, DrainInv, PartsAdd, Types, Directions, LoadPlayback, Goto
      <3> QED BY <3>1, <3>2, <3>3, <3>4
    <2>6. CASE StopDrained
      <3>1. ApiInv'
        BY <1>2, <2>6 DEF IInv, Types, ApiInv, Stopped, StopDrained, StopReturns, CaptureDrained
      <3>2. CaptureInv'
        BY <1>2, <1>3, <1>5, <1>6, <2>6, Constants
        DEF IInv, ApiInv, Stopped, CaptureInv, Budget, Queued, PartsAdd, Types, Directions, StopDrained, StopReturns, CaptureDrained
      <3>3. PlaybackInv'
        BY <1>1, <1>2, <1>3, <1>5, <2>6, Constants
        DEF IInv, ApiInv, Stopped, PlaybackInv, DrainInv, PartsAdd, Types, Directions, StopDrained, StopReturns, CaptureDrained
      <3>4. DrainInv'
        BY <1>1, <1>2, <1>3, <1>5, <2>6, Constants
        DEF IInv, ApiInv, Stopped, CaptureInv, PlaybackInv, DrainInv, PartsAdd, Types, Directions, StopDrained, StopReturns, CaptureDrained
      <3> QED BY <3>1, <3>2, <3>3, <3>4
    <2>7. CASE LoadAgain
      <3>1. ApiInv'
        BY <1>2, <2>7 DEF IInv, Types, ApiInv, Stopped, LoadAgain, Goto
      <3>2. CaptureInv'
        BY <1>2, <1>3, <1>5, <1>6, <2>7, Constants
        DEF IInv, ApiInv, Stopped, CaptureInv, Budget, Queued, PartsAdd, Types, Directions, LoadAgain, Goto
      <3>3. PlaybackInv'
        BY <1>1, <1>2, <1>3, <1>5, <2>7, Constants
        DEF IInv, ApiInv, Stopped, PlaybackInv, DrainInv, PartsAdd, Types, Directions, LoadAgain, Goto
      <3>4. DrainInv'
        BY <1>1, <1>2, <1>3, <1>5, <2>7, Constants
        DEF IInv, ApiInv, Stopped, CaptureInv, PlaybackInv, DrainInv, PartsAdd, Types, Directions, LoadAgain, Goto
      <3> QED BY <3>1, <3>2, <3>3, <3>4
    <2>8. CASE StopTimesOut
      <3>1. ApiInv'
        BY <1>2, <2>8 DEF IInv, Types, ApiInv, Stopped, StopTimesOut, StopReturns
      <3>2. CaptureInv'
        BY <1>2, <1>3, <1>5, <1>6, <2>8, Constants
        DEF IInv, ApiInv, Stopped, CaptureInv, Budget, Queued, PartsAdd, Types, Directions, StopTimesOut, StopReturns
      <3>3. PlaybackInv'
        BY <1>1, <1>2, <1>3, <1>5, <2>8, Constants
        DEF IInv, ApiInv, Stopped, PlaybackInv, DrainInv, PartsAdd, Types, Directions, StopTimesOut, StopReturns
      <3>4. DrainInv'
        BY <1>1, <1>2, <1>3, <1>5, <2>8, Constants
        DEF IInv, ApiInv, Stopped, CaptureInv, PlaybackInv, DrainInv, PartsAdd, Types, Directions, StopTimesOut, StopReturns
      <3> QED BY <3>1, <3>2, <3>3, <3>4
    <2>9. CASE CloseRefused
      <3>1. ApiInv'
        BY <1>2, <2>9 DEF IInv, Types, ApiInv, Stopped, CloseRefused, StopReturns
      <3>2. CaptureInv'
        BY <1>2, <1>3, <1>5, <1>6, <2>9, Constants
        DEF IInv, ApiInv, Stopped, CaptureInv, Budget, Queued, PartsAdd, Types, Directions, CloseRefused, StopReturns
      <3>3. PlaybackInv'
        BY <1>1, <1>2, <1>3, <1>5, <2>9, Constants
        DEF IInv, ApiInv, Stopped, PlaybackInv, DrainInv, PartsAdd, Types, Directions, CloseRefused, StopReturns
      <3>4. DrainInv'
        BY <1>1, <1>2, <1>3, <1>5, <2>9, Constants
        DEF IInv, ApiInv, Stopped, CaptureInv, PlaybackInv, DrainInv, PartsAdd, Types, Directions, CloseRefused, StopReturns
      <3> QED BY <3>1, <3>2, <3>3, <3>4
    <2>10. CASE CloseUsb
      <3>1. ApiInv'
        BY <1>2, <2>10 DEF IInv, Types, ApiInv, Stopped, CloseUsb, Goto
      <3>2. CaptureInv'
        BY <1>2, <1>3, <1>5, <1>6, <2>10, Constants
        DEF IInv, ApiInv, Stopped, CaptureInv, Budget, Queued, PartsAdd, Types, Directions, CloseUsb, Goto
      <3>3. PlaybackInv'
        BY <1>1, <1>2, <1>3, <1>5, <2>10, Constants
        DEF IInv, ApiInv, Stopped, PlaybackInv, DrainInv, PartsAdd, Types, Directions, CloseUsb, Goto
      <3>4. DrainInv'
        BY <1>1, <1>2, <1>3, <1>5, <2>10, Constants
        DEF IInv, ApiInv, Stopped, CaptureInv, PlaybackInv, DrainInv, PartsAdd, Types, Directions, CloseUsb, Goto
      <3> QED BY <3>1, <3>2, <3>3, <3>4
    <2>11. CASE Ep1Deadline
      <3>1. ApiInv'
        BY <1>2, <2>11 DEF IInv, Types, ApiInv, Stopped, Ep1Deadline
      <3>2. CaptureInv'
        BY <1>2, <1>3, <1>5, <1>6, <2>11, Constants
        DEF IInv, ApiInv, Stopped, CaptureInv, Budget, Queued, PartsAdd, Types, Directions, Ep1Deadline
      <3>3. PlaybackInv'
        BY <1>1, <1>2, <1>3, <1>5, <2>11, Constants
        DEF IInv, ApiInv, Stopped, PlaybackInv, DrainInv, PartsAdd, Types, Directions, Ep1Deadline
      <3>4. DrainInv'
        BY <1>1, <1>2, <1>3, <1>5, <2>11, Constants
        DEF IInv, ApiInv, Stopped, CaptureInv, PlaybackInv, DrainInv, PartsAdd, Types, Directions, Ep1Deadline
      <3> QED BY <3>1, <3>2, <3>3, <3>4
    <2> QED BY <2>1, <2>2, <2>3, <2>4, <2>5, <2>6, <2>7, <2>8, <2>9, <2>10, <2>11 DEF Calls
  <1> QED BY <1>4, <1>7 DEF IInv

(***************************************************************************)
(* The steps that put a block on the queue, and the one that takes it off  *)
(***************************************************************************)
LEMMA BlocksWait ==
    /\ Waits(Worker) /\ Waits(Retry)
    /\ \A d \in Directions : Waits(Completion(d))
    /\ \A call \in Nat : Waits(Sentinel(call))
    /\ Worker.kind = "worker" /\ Retry.kind = "retry"
    /\ \A d \in Directions : Completion(d).kind = d
    /\ \A call \in Nat : Sentinel(call).kind = "sentinel"
  BY Constants DEF Waits, Blocks, Kinds, Places, Submitting, Worker, Retry, Completion, Sentinel,
                   Block, Directions

LEMMA SameTask ==
    ASSUME task' = task
    PROVE  /\ Left' = Left /\ Alive' = Alive /\ Going' = Going /\ Playing' = Playing
           /\ Hot' <=> Hot
           /\ Runs(task) => Runs(task')
  BY DEF Left, Alive, Going, Playing, Running, Hot

LEMMA DispatchWorkerHolds ==
    ASSUME IInv, DispatchWorker
    PROVE  IInv'
  <1>1. Types /\ QueueInv /\ PartsAdd
    BY Parts DEF IInv, Types
  <1>2. Waits(Worker) /\ queue' = Append(queue, Worker) /\ task' = task
    BY <1>1, BlocksWait DEF Types, DispatchWorker
  <1>3. /\ QueueInv'
        /\ Waiting("capture")' = Waiting("capture") + (IF Worker.kind = "capture" THEN 1 ELSE 0)
        /\ Waiting("playback")' = Waiting("playback") + (IF Worker.kind = "playback" THEN 1 ELSE 0)
        /\ Waiting("retry")' = Waiting("retry") + (IF Worker.kind = "retry" THEN 1 ELSE 0)
        /\ Rounds(queue)' = Rounds(queue) + (IF Worker.kind = "worker" THEN CaptureDepth ELSE 0)
    BY <1>1, <1>2, QueueAppended
  <1>4. /\ Left' = Left /\ Alive' = Alive /\ Going' = Going /\ Playing' = Playing
        /\ Hot' <=> Hot
        /\ Runs(task')
    BY <1>1, <1>2, SameTask DEF Types
  <1>5. Types'
    <2>1. Settings'
      BY <1>1 DEF Types, Settings, ApiPlaces, DispatchWorker, Goto
    <2>2. pipe' \in [Directions -> Nat] /\ retries' \in Nat
      BY <1>1 DEF Types, Directions, DispatchWorker
    <2> QED BY <1>3, <1>4, <2>1, <2>2 DEF Types, Settings
  <1>6. PartsAdd'
    BY <1>5, PartsAfter
  <1>7. /\ CaptureAlive' = CaptureAlive /\ PlaybackAlive' = PlaybackAlive
        /\ Chains' = Chains
    <2>1. /\ Waiting("capture")' = Waiting("capture")
          /\ Waiting("playback")' = Waiting("playback")
          /\ Waiting("retry")' = Waiting("retry")
          /\ Rounds(queue)' = Rounds(queue) + CaptureDepth
      BY <1>1, <1>3, BlocksWait, Constants
      DEF PartsAdd
    <2>2. /\ pipe' = pipe /\ retries' = retries
          /\ Queued = CaptureDepth /\ Queued' = 0
      BY <1>1, Constants DEF Types, Queued, DispatchWorker, Goto
    <2> QED BY <1>1, <1>4, <1>6, <2>1, <2>2, Constants DEF PartsAdd, Carried
  <1>8. ApiInv'
    BY <1>1 DEF IInv, Types, ApiInv, Stopped, DispatchWorker, Goto
  <1>9. CaptureInv'
    BY <1>1, <1>6, <1>7 DEF IInv, Types, CaptureInv, Budget, DispatchWorker, Goto
  <1>10. PlaybackInv'
    BY <1>1, <1>2, <1>7 DEF IInv, PlaybackInv, DispatchWorker
  <1>11. DrainInv'
    BY <1>1, <1>4, <1>7 DEF IInv, Types, ApiInv, DrainInv, DispatchWorker, Goto
  <1> QED BY <1>5, <1>8, <1>9, <1>10, <1>11 DEF IInv

LEMMA AbortAndDispatchHolds ==
    ASSUME IInv, AbortAndDispatch
    PROVE  IInv'
  <1>1. Types /\ QueueInv /\ PartsAdd
    BY Parts DEF IInv, Types
  <1>2. Waits(Sentinel(used.stops)) /\ queue' = Append(queue, Sentinel(used.stops)) /\ task' = task
    BY <1>1, BlocksWait DEF Types, AbortAndDispatch
  <1>3. /\ QueueInv'
        /\ Waiting("capture")' = Waiting("capture") + (IF Sentinel(used.stops).kind = "capture" THEN 1 ELSE 0)
        /\ Waiting("playback")' = Waiting("playback") + (IF Sentinel(used.stops).kind = "playback" THEN 1 ELSE 0)
        /\ Waiting("retry")' = Waiting("retry") + (IF Sentinel(used.stops).kind = "retry" THEN 1 ELSE 0)
        /\ Rounds(queue)' = Rounds(queue) + (IF Sentinel(used.stops).kind = "worker" THEN CaptureDepth ELSE 0)
    BY <1>1, <1>2, QueueAppended
  <1>4. /\ Left' = Left /\ Alive' = Alive /\ Going' = Going /\ Playing' = Playing
        /\ Hot' <=> Hot
        /\ Runs(task')
    BY <1>1, <1>2, SameTask DEF Types
  <1>5. Types'
    <2>1. Settings'
      BY <1>1 DEF Types, Settings, ApiPlaces, AbortAndDispatch, Goto
    <2>2. pipe' \in [Directions -> Nat] /\ retries' \in Nat
      BY <1>1 DEF Types, Directions, AbortAndDispatch
    <2> QED BY <1>3, <1>4, <2>1, <2>2 DEF Types, Settings
  <1>6. PartsAdd'
    BY <1>5, PartsAfter
  <1>7. /\ CaptureAlive' = CaptureAlive /\ PlaybackAlive' = PlaybackAlive
        /\ Chains' = Chains
    <2>1. /\ Waiting("capture")' = Waiting("capture")
          /\ Waiting("playback")' = Waiting("playback")
          /\ Waiting("retry")' = Waiting("retry")
          /\ Rounds(queue)' = Rounds(queue)
      BY <1>1, <1>3, BlocksWait, Constants
      DEF PartsAdd, Types
    <2>2. pipe' = pipe /\ retries' = retries /\ Queued = 0 /\ Queued' = 0
      BY <1>1 DEF Types, Queued, AbortAndDispatch, Goto
    <2> QED BY <1>1, <1>4, <1>6, <2>1, <2>2 DEF PartsAdd, Carried
  <1>8. ApiInv'
    BY <1>1 DEF IInv, Types, ApiInv, Stopped, AbortAndDispatch, Goto
  <1>9. CaptureInv'
    BY <1>1, <1>6, <1>7 DEF IInv, Types, CaptureInv, Budget, AbortAndDispatch, Goto
  <1>10. PlaybackInv'
    BY <1>1, <1>2, <1>7 DEF IInv, PlaybackInv, AbortAndDispatch
  <1>11. DrainInv'
    BY <1>1, <1>4, <1>7 DEF IInv, Types, ApiInv, DrainInv, AbortAndDispatch, Goto
  <1> QED BY <1>5, <1>8, <1>9, <1>10, <1>11 DEF IInv

LEMMA RetryFiresHolds ==
    ASSUME IInv, RetryFires
    PROVE  IInv'
  <1>1. Types /\ QueueInv /\ PartsAdd
    BY Parts DEF IInv, Types
  <1>2. Waits(Retry) /\ queue' = Append(queue, Retry) /\ task' = task
    BY <1>1, BlocksWait DEF Types, RetryFires
  <1>3. /\ QueueInv'
        /\ Waiting("capture")' = Waiting("capture") + (IF Retry.kind = "capture" THEN 1 ELSE 0)
        /\ Waiting("playback")' = Waiting("playback") + (IF Retry.kind = "playback" THEN 1 ELSE 0)
        /\ Waiting("retry")' = Waiting("retry") + (IF Retry.kind = "retry" THEN 1 ELSE 0)
        /\ Rounds(queue)' = Rounds(queue) + (IF Retry.kind = "worker" THEN CaptureDepth ELSE 0)
    BY <1>1, <1>2, QueueAppended
  <1>4. /\ Left' = Left /\ Alive' = Alive /\ Going' = Going /\ Playing' = Playing
        /\ Hot' <=> Hot
        /\ Runs(task')
    BY <1>1, <1>2, SameTask DEF Types
  <1>5. Types'
    <2>1. Settings'
      BY <1>1 DEF Types, Settings, ApiPlaces, RetryFires
    <2>2. pipe' \in [Directions -> Nat] /\ retries' \in Nat
      BY <1>1 DEF Types, Directions, RetryFires
    <2> QED BY <1>3, <1>4, <2>1, <2>2 DEF Types, Settings
  <1>6. PartsAdd'
    BY <1>5, PartsAfter
  <1>7. /\ CaptureAlive' = CaptureAlive /\ PlaybackAlive' = PlaybackAlive
        /\ Chains' = Chains
    <2>1. /\ Waiting("capture")' = Waiting("capture")
          /\ Waiting("playback")' = Waiting("playback")
          /\ Waiting("retry")' = Waiting("retry") + 1
          /\ Rounds(queue)' = Rounds(queue)
      BY <1>1, <1>3, BlocksWait, Constants
      DEF PartsAdd
    <2>2. pipe' = pipe /\ retries' = retries - 1 /\ Queued' = Queued
      BY <1>1 DEF Types, Queued, RetryFires
    <2> QED BY <1>1, <1>4, <1>6, <2>1, <2>2 DEF PartsAdd, Carried
  <1>8. ApiInv'
    BY <1>1 DEF IInv, Types, ApiInv, Stopped, RetryFires
  <1>9. CaptureInv'
    BY <1>1, <1>6, <1>7 DEF IInv, Types, CaptureInv, Budget, RetryFires
  <1>10. PlaybackInv'
    BY <1>1, <1>2, <1>7 DEF IInv, PlaybackInv, RetryFires
  <1>11. DrainInv'
    BY <1>1, <1>4, <1>7 DEF IInv, Types, ApiInv, DrainInv, RetryFires
  <1> QED BY <1>5, <1>8, <1>9, <1>10, <1>11 DEF IInv

LEMMA CompleteHolds ==
    ASSUME IInv, NEW d \in Directions, Complete(d)
    PROVE  IInv'
  <1>1. Types /\ QueueInv /\ PartsAdd
    BY Parts DEF IInv, Types
  <1>2. Waits(Completion(d)) /\ queue' = Append(queue, Completion(d)) /\ task' = task
    BY <1>1, BlocksWait DEF Types, Complete
  <1>3. /\ QueueInv'
        /\ Waiting("capture")' = Waiting("capture") + (IF Completion(d).kind = "capture" THEN 1 ELSE 0)
        /\ Waiting("playback")' = Waiting("playback") + (IF Completion(d).kind = "playback" THEN 1 ELSE 0)
        /\ Waiting("retry")' = Waiting("retry") + (IF Completion(d).kind = "retry" THEN 1 ELSE 0)
        /\ Rounds(queue)' = Rounds(queue) + (IF Completion(d).kind = "worker" THEN CaptureDepth ELSE 0)
    BY <1>1, <1>2, QueueAppended
  <1>4. /\ Left' = Left /\ Alive' = Alive /\ Going' = Going /\ Playing' = Playing
        /\ Hot' <=> Hot
        /\ Runs(task')
    BY <1>1, <1>2, SameTask DEF Types
  <1>5. Types'
    <2>1. Settings'
      BY <1>1 DEF Types, Settings, ApiPlaces, Complete
    <2>2. pipe' \in [Directions -> Nat] /\ retries' \in Nat
      BY <1>1 DEF Types, Directions, Complete
    <2> QED BY <1>3, <1>4, <2>1, <2>2 DEF Types, Settings
  <1>6. PartsAdd'
    BY <1>5, PartsAfter
  <1>7. /\ CaptureAlive' = CaptureAlive /\ PlaybackAlive' = PlaybackAlive
        /\ Chains' = Chains
    <2>1. /\ Waiting("retry")' = Waiting("retry") /\ Rounds(queue)' = Rounds(queue)
          /\ Completion(d).kind = d
      BY <1>1, <1>3, BlocksWait DEF PartsAdd, Directions
    <2>2. retries' = retries /\ Queued' = Queued
      BY <1>1 DEF Types, Queued, Complete
    <2>3. CASE d = "capture"
      <3>1. /\ Waiting("capture")' = Waiting("capture") + 1
            /\ Waiting("playback")' = Waiting("playback")
        BY <1>1, <1>3, <2>1, <2>3 DEF PartsAdd
      <3>2. pipe'["capture"] = pipe["capture"] - 1 /\ pipe'["playback"] = pipe["playback"]
        BY <1>1, <2>3 DEF Types, Directions, Complete
      <3>3. CaptureAlive' = CaptureAlive /\ PlaybackAlive' = PlaybackAlive
        BY <1>1, <1>4, <1>6, <3>1, <3>2 DEF PartsAdd
      <3>4. Carried' = Carried
        BY <1>4, <2>1, <2>2, <3>3 DEF Carried
      <3> QED BY <1>1, <1>6, <2>2, <3>3, <3>4 DEF PartsAdd
    <2>4. CASE d = "playback"
      <3>1. /\ Waiting("playback")' = Waiting("playback") + 1
            /\ Waiting("capture")' = Waiting("capture")
        BY <1>1, <1>3, <2>1, <2>4 DEF PartsAdd
      <3>2. pipe'["playback"] = pipe["playback"] - 1 /\ pipe'["capture"] = pipe["capture"]
        BY <1>1, <2>4 DEF Types, Directions, Complete
      <3>3. CaptureAlive' = CaptureAlive /\ PlaybackAlive' = PlaybackAlive
        BY <1>1, <1>4, <1>6, <3>1, <3>2 DEF PartsAdd
      <3>4. Carried' = Carried
        BY <1>4, <2>1, <2>2, <3>3 DEF Carried
      <3> QED BY <1>1, <1>6, <2>2, <3>3, <3>4 DEF PartsAdd
    <2> QED BY <2>3, <2>4 DEF Directions
  <1>8. ApiInv'
    BY <1>1 DEF IInv, Types, ApiInv, Stopped, Complete
  <1>9. CaptureInv'
    BY <1>1, <1>6, <1>7 DEF IInv, Types, CaptureInv, Budget, Complete
  <1>10. PlaybackInv'
    BY <1>1, <1>2, <1>7 DEF IInv, PlaybackInv, Complete
  <1>11. DrainInv'
    BY <1>1, <1>4, <1>7 DEF IInv, Types, ApiInv, DrainInv, Complete
  <1> QED BY <1>5, <1>8, <1>9, <1>10, <1>11 DEF IInv

\* A block that starts to run was counted as waiting.
LEMMA DequeueHolds ==
    ASSUME IInv, Dequeue
    PROVE  IInv'
  <1> DEFINE b == Head(queue)
  <1>1. Types /\ QueueInv /\ PartsAdd
    BY Parts DEF IInv, Types
  <1>2. /\ Waits(b) /\ QueueInv'
        /\ Waiting("capture") = Waiting("capture")' + (IF b.kind = "capture" THEN 1 ELSE 0)
        /\ Waiting("playback") = Waiting("playback")' + (IF b.kind = "playback" THEN 1 ELSE 0)
        /\ Waiting("retry") = Waiting("retry")' + (IF b.kind = "retry" THEN 1 ELSE 0)
        /\ Rounds(queue) = Rounds(queue)' + (IF b.kind = "worker" THEN CaptureDepth ELSE 0)
    BY <1>1, QueueTaken DEF Dequeue
  <1>3. task = NoTask /\ task' = b
    BY DEF Dequeue
  <1> HIDE DEF b
  <1>4. Runs(task')
    BY <1>2, <1>3 DEF Waits, Runs, Submitting
  <1>5. Types'
    BY <1>1, <1>2, <1>4 DEF Types, Dequeue
  <1>6. PartsAdd'
    BY <1>5, PartsAfter
  <1>7. ~Hot /\ ~Hot'
    BY <1>2, <1>3 DEF Hot, NoTask, Waits, Kinds, Blocks
  <1>8. /\ CaptureAlive' = CaptureAlive /\ PlaybackAlive' = PlaybackAlive
        /\ Chains' = Chains
    <2>1. pipe' = pipe /\ retries' = retries /\ Queued' = Queued
      BY DEF Queued, Dequeue
    <2>2. Left = 0 /\ Alive = 0 /\ Going = 0 /\ Playing = 0
      BY <1>3 DEF NoTask, Left, Alive, Going, Playing, Running
    <2>3. /\ Left' = (IF b.kind = "worker" THEN CaptureDepth ELSE 0)
          /\ Alive' = (IF b.kind = "capture" THEN 1 ELSE 0)
          /\ Going' = (IF b.kind = "retry" THEN 1 ELSE 0)
          /\ Playing' = (IF b.kind = "playback" THEN 1 ELSE 0)
      <3>1. task'.kind = b.kind /\ task'.pc = b.pc /\ task'.left = b.left
        BY <1>3
      <3>2. b.kind \in Kinds \ {"none"}
        BY <1>2 DEF Waits, Blocks
      <3> QED BY <1>2, <3>1, <3>2 DEF Waits, Kinds, Left, Alive, Going, Playing, Running
    <2>4. CaptureAlive' = CaptureAlive /\ PlaybackAlive' = PlaybackAlive
      BY <1>1, <1>2, <1>6, <2>1, <2>2, <2>3 DEF PartsAdd
    <2>5. Carried' = Carried
      BY <1>1, <1>2, <1>6, <2>1, <2>2, <2>3, <2>4, Constants DEF PartsAdd, Carried
    <2> QED BY <1>1, <1>6, <2>1, <2>4, <2>5 DEF PartsAdd
  <1>9. ApiInv'
    BY DEF IInv, ApiInv, Dequeue
  <1>10. CaptureInv'
    BY <1>8 DEF IInv, CaptureInv, Budget, Dequeue
  <1>11. PlaybackInv'
    BY <1>7, <1>8 DEF IInv, PlaybackInv, Hot, Dequeue
  <1>12. DrainInv'
    BY <1>7, <1>8 DEF IInv, DrainInv, Dequeue
  <1> QED BY <1>5, <1>9, <1>10, <1>11, <1>12 DEF IInv

(***************************************************************************)
(* The steps of the block that runs.  All but the sentinel's keep the API   *)
(* call and the flags, count what they do, lose a capture only when the     *)
(* stream has stopped, and submit only past a check of _streaming.          *)
(***************************************************************************)
Counted ==
    /\ inFlight'["capture"] - CaptureAlive' = inFlight["capture"] - CaptureAlive
    /\ Carried' <= Carried
    /\ flag.streaming => Carried' = Carried
    /\ Hot' => Hot \/ flag.streaming
    /\ CaptureAlive' > CaptureAlive => Hot
    /\ PlaybackAlive' > PlaybackAlive => Hot

LEMMA CountedHolds ==
    ASSUME IInv, Types', flag' = flag, api' = api, queue' = queue,
           used'.sessions = used.sessions, used'.starved = used.starved, Counted, PlaybackInv'
    PROVE  IInv'
  <1>1. PartsAdd /\ PartsAdd' /\ Types
    BY Parts, PartsAfter DEF IInv
  <1>2. Queued' = Queued /\ Budget' = Budget
    BY DEF Queued, Budget
  <1>3. inFlight["capture"] \in Int /\ inFlight'["capture"] \in Int /\ Budget \in Nat
    BY <1>1, BudgetHolds, Constants DEF Types, Directions
  <1>4. ApiInv'
    BY DEF IInv, ApiInv
  <1>5. /\ CaptureAlive \in Nat /\ PlaybackAlive \in Nat /\ Carried \in Nat /\ Queued \in Nat
        /\ CaptureAlive' \in Nat /\ PlaybackAlive' \in Nat /\ Carried' \in Nat
        /\ Chains = Carried + Queued /\ Chains' = Carried' + Queued'
    BY <1>1 DEF PartsAdd
  <1>6. CaptureInv'
    <2>1. inFlight'["capture"] = CaptureAlive'
      <3>1. inFlight'["capture"] - CaptureAlive' = inFlight["capture"] - CaptureAlive
        BY DEF Counted
      <3>2. inFlight["capture"] = CaptureAlive
        BY DEF IInv, CaptureInv
      <3> QED BY <1>3, <1>5, <3>1, <3>2
    <2>2. Carried' <= Carried
      BY DEF Counted
    <2>3. Chains' <= Chains /\ Chains \in Nat /\ Chains' \in Nat
      <3>1. PICK c \in Nat : c = Carried'
        BY <1>5
      <3>2. Chains = Carried + Queued /\ Chains' = c + Queued /\ c <= Carried
        BY <1>2, <1>5, <2>2, <3>1
      <3>3. Carried \in Nat /\ Queued \in Nat
        BY <1>5
      <3> QED BY <3>2, <3>3
    <2> DEFINE extra == IF api.pc = "reset" THEN CaptureDepth ELSE 0
    <2>4. Chains' + extra <= Budget'
      <3>1. Chains + extra <= Budget /\ extra \in Nat
        BY Constants DEF IInv, CaptureInv
      <3> HIDE DEF extra
      <3>2. Budget' = Budget /\ Budget \in Nat
        BY <1>2, <1>3
      <3>3. PICK c \in Nat : c = Chains'
        BY <2>3
      <3>4. c <= Chains /\ Chains \in Nat
        BY <2>3, <3>3
      <3>5. c + extra <= Budget
        BY <3>1, <3>2, <3>4
      <3> QED BY <3>2, <3>3, <3>5
    <2>5. flag.streaming => Chains' + used'.starved >= CaptureDepth
      <3>1. flag.streaming => Chains' = Chains
        BY <1>2, <1>5 DEF Counted
      <3> QED BY <3>1 DEF IInv, CaptureInv
    <2> QED BY <2>1, <2>4, <2>5 DEF CaptureInv
  <1>7. DrainInv'
    <2>1. ~Hot /\ ~flag.streaming => ~Hot'
      BY DEF Counted
    <2>2. ~Hot /\ CaptureAlive = 0 => CaptureAlive' = 0
      BY <1>5 DEF Counted
    <2>3. ~Hot /\ PlaybackAlive = 0 => PlaybackAlive' = 0
      BY <1>5 DEF Counted
    <2>4. ApiInv /\ DrainInv
      BY DEF IInv
    <2> QED BY <2>1, <2>2, <2>3, <2>4 DEF DrainInv, ApiInv, Stopped
  <1> QED BY <1>4, <1>6, <1>7 DEF IInv

\* What a step of the block that runs adds to the captures and to the playback that are alive,
\* and to the captures on their way.
CaptureMoved == (pipe'["capture"] + Alive') - (pipe["capture"] + Alive)
PlaybackMoved == (pipe'["playback"] + Playing') - (pipe["playback"] + Playing)
OthersMoved == (retries' + Going' + Left') - (retries + Going + Left)

LEMMA Accounts ==
    ASSUME Types, Types', queue' = queue
    PROVE  /\ CaptureMoved \in Int /\ PlaybackMoved \in Int /\ OthersMoved \in Int
           /\ CaptureAlive' = CaptureAlive + CaptureMoved
           /\ PlaybackAlive' = PlaybackAlive + PlaybackMoved
           /\ Carried' = Carried + CaptureMoved + OthersMoved
  <1>1. PartsAdd /\ PartsAdd'
    BY Parts, PartsAfter
  <1>2. /\ Waiting("capture")' = Waiting("capture") /\ Waiting("playback")' = Waiting("playback")
        /\ Waiting("retry")' = Waiting("retry") /\ Rounds(queue)' = Rounds(queue)
    BY QueueKept DEF Types
  <1>3. PICK c \in Nat, p \in Nat, r \in Nat, alive \in Nat, playing \in Nat, going \in Nat,
             left \in Nat :
           /\ c = pipe'["capture"] /\ p = pipe'["playback"] /\ r = retries'
           /\ alive = Alive' /\ playing = Playing' /\ going = Going' /\ left = Left'
    BY <1>1 DEF PartsAdd
  <1>4. /\ pipe["capture"] \in Nat /\ pipe["playback"] \in Nat /\ retries \in Nat
        /\ Waiting("capture") \in Nat /\ Waiting("playback") \in Nat
        /\ Waiting("retry") \in Nat /\ Rounds(queue) \in Nat
        /\ Left \in Nat /\ Alive \in Nat /\ Going \in Nat /\ Playing \in Nat
        /\ CaptureAlive \in Nat
    BY <1>1 DEF PartsAdd
  <1>5. /\ CaptureMoved = c + alive - (pipe["capture"] + Alive)
        /\ PlaybackMoved = p + playing - (pipe["playback"] + Playing)
        /\ OthersMoved = r + going + left - (retries + Going + Left)
    BY <1>3, <1>4 DEF CaptureMoved, PlaybackMoved, OthersMoved
  <1>6. CaptureMoved \in Int /\ PlaybackMoved \in Int /\ OthersMoved \in Int
    BY <1>4, <1>5
  <1>7. CaptureAlive' = CaptureAlive + CaptureMoved
    <2>1. /\ CaptureAlive = pipe["capture"] + Waiting("capture") + Alive
          /\ CaptureAlive' = c + Waiting("capture") + alive
      BY <1>1, <1>2, <1>3 DEF PartsAdd
    <2> QED BY <1>4, <1>5, <2>1
  <1>8. PlaybackAlive' = PlaybackAlive + PlaybackMoved
    <2>1. /\ PlaybackAlive = pipe["playback"] + Waiting("playback") + Playing
          /\ PlaybackAlive' = p + Waiting("playback") + playing
      BY <1>1, <1>2, <1>3 DEF PartsAdd
    <2> QED BY <1>4, <1>5, <2>1
  <1>9. Carried' = Carried + CaptureMoved + OthersMoved
    <2>1. /\ Carried = CaptureAlive + retries + Waiting("retry") + Rounds(queue) + Left + Going
          /\ Carried' = (CaptureAlive + CaptureMoved) + r + Waiting("retry") + Rounds(queue) + left + going
      BY <1>2, <1>3, <1>7 DEF Carried
    <2> QED BY <1>4, <1>5, <1>6, <2>1
  <1> QED BY <1>6, <1>7, <1>8, <1>9

\* The counters follow, a capture is lost only when the stream has stopped, playback grows
\* by the transfer that was reserved, and nothing submits that had not checked _streaming.
Accounted ==
    /\ inFlight'["capture"] = inFlight["capture"] + CaptureMoved
    /\ CaptureMoved + OthersMoved <= 0
    /\ flag.streaming => CaptureMoved + OthersMoved = 0
    /\ CaptureMoved > 0 => Hot
    /\ flag.unsafe \/ inFlight'["playback"] = inFlight["playback"] + PlaybackMoved
    /\ PlaybackMoved > 0 => PlaybackMoved = 1 /\ task.pc = "playback-reserve"
    /\ task'.pc = "playback-reserve" => inFlight'["playback"] < Lead
    /\ Hot' => Hot \/ flag.streaming

LEMMA Moves ==
    ASSUME IInv, Types', flag' = flag, api' = api, queue' = queue,
           used'.sessions = used.sessions, used'.starved = used.starved, Accounted
    PROVE  IInv'
  <1>1. Types /\ PartsAdd /\ PartsAdd'
    BY Parts, PartsAfter DEF IInv
  <1>2. /\ CaptureMoved \in Int /\ PlaybackMoved \in Int /\ OthersMoved \in Int
        /\ CaptureAlive' = CaptureAlive + CaptureMoved
        /\ PlaybackAlive' = PlaybackAlive + PlaybackMoved
        /\ Carried' = Carried + CaptureMoved + OthersMoved
    BY <1>1, Accounts
  <1>3. PICK c \in Int, p \in Int, r \in Int :
           c = CaptureMoved /\ p = PlaybackMoved /\ r = OthersMoved
    BY <1>2
  <1>4. /\ CaptureAlive' = CaptureAlive + c /\ PlaybackAlive' = PlaybackAlive + p
        /\ Carried' = Carried + c + r
        /\ inFlight'["capture"] = inFlight["capture"] + c
    BY <1>2, <1>3 DEF Accounted
  <1>5. c + r <= 0 /\ (flag.streaming => c + r = 0) /\ (c > 0 => Hot)
        /\ (p > 0 => p = 1 /\ task.pc = "playback-reserve")
    BY <1>3 DEF Accounted
  <1>6. CaptureAlive \in Nat /\ PlaybackAlive \in Nat /\ Carried \in Nat
    BY <1>1 DEF PartsAdd
  <1>7. inFlight["capture"] \in Int /\ inFlight["playback"] \in Int /\ Lead \in Nat
    BY <1>1, Constants DEF Types, Directions
  <1>8. Counted
    <2>1. inFlight'["capture"] - CaptureAlive' = inFlight["capture"] - CaptureAlive
      BY <1>4, <1>6, <1>7
    <2>2. Carried' <= Carried
      <3>1. c + r <= 0
        BY <1>5
      <3> QED BY <1>4, <1>6, <3>1
    <2>3. flag.streaming => Carried' = Carried
      <3> SUFFICES ASSUME flag.streaming PROVE Carried' = Carried
        OBVIOUS
      <3>1. c + r = 0
        BY <1>5
      <3> QED BY <1>4, <1>6, <3>1
    <2>4. CaptureAlive' > CaptureAlive => Hot
      <3>1. CaptureAlive' > CaptureAlive => c > 0
        BY <1>4, <1>6
      <3> QED BY <1>5, <3>1
    <2>5. PlaybackAlive' > PlaybackAlive => Hot
      <3>1. PlaybackAlive' > PlaybackAlive => p > 0
        BY <1>4, <1>6
      <3> QED BY <1>5, <3>1 DEF Hot
    <2> QED BY <2>1, <2>2, <2>3, <2>4, <2>5 DEF Counted, Accounted
  <1>9. PlaybackInv'
    <2> SUFFICES ASSUME ~flag.unsafe
                 PROVE  /\ inFlight'["playback"] = PlaybackAlive'
                        /\ PlaybackAlive' <= Lead
                        /\ task'.pc = "playback-reserve" => inFlight'["playback"] < Lead
      BY DEF PlaybackInv
    <2>1. inFlight["playback"] = PlaybackAlive /\ PlaybackAlive <= Lead
      BY DEF IInv, PlaybackInv
    <2>2. task.pc = "playback-reserve" => PlaybackAlive < Lead
      BY DEF IInv, PlaybackInv
    <2>3. inFlight'["playback"] = PlaybackAlive'
      BY <1>3, <1>4, <2>1 DEF Accounted
    <2>4. PlaybackAlive' <= Lead
      <3>1. CASE p > 0
        <4>1. p = 1 /\ PlaybackAlive < Lead
          BY <1>5, <2>2, <3>1
        <4> QED BY <1>4, <1>6, <1>7, <4>1
      <3>2. CASE p <= 0
        BY <1>4, <1>6, <1>7, <2>1, <3>2
      <3> QED BY <3>1, <3>2
    <2> QED BY <2>3, <2>4 DEF Accounted
  <1> QED BY <1>8, <1>9, CountedHolds

(***************************************************************************)
(* The steps that only move the block that runs                            *)
(***************************************************************************)
LEMMA LooksOnly ==
    ASSUME IInv, OnlyTask, Runs(task')
    PROVE  /\ Types'
           /\ CaptureMoved = Alive' - Alive /\ PlaybackMoved = Playing' - Playing
           /\ OthersMoved = (Going' + Left') - (Going + Left)
           /\ Accounted => IInv'
  <1>1. Types /\ PartsAdd /\ QueueInv
    BY Parts DEF IInv, Types
  <1>2. Types'
    BY <1>1, QueueKept DEF Types, OnlyTask
  <1>3. PartsAdd'
    BY <1>2, PartsAfter
  <1>4. PICK alive \in Nat, playing \in Nat, going \in Nat, left \in Nat :
           alive = Alive' /\ playing = Playing' /\ going = Going' /\ left = Left'
    BY <1>3 DEF PartsAdd
  <1>5. /\ pipe["capture"] \in Nat /\ pipe["playback"] \in Nat /\ retries \in Nat
        /\ Left \in Nat /\ Alive \in Nat /\ Going \in Nat /\ Playing \in Nat
    BY <1>1 DEF PartsAdd
  <1>6. pipe' = pipe /\ retries' = retries
    BY DEF OnlyTask
  <1>7. CaptureMoved = alive - Alive
    BY <1>4, <1>5, <1>6 DEF CaptureMoved
  <1>8. PlaybackMoved = playing - Playing
    BY <1>4, <1>5, <1>6 DEF PlaybackMoved
  <1>9. OthersMoved = (going + left) - (Going + Left)
    BY <1>4, <1>5, <1>6 DEF OthersMoved
  <1>10. Accounted => IInv'
    BY <1>2, Moves DEF OnlyTask
  <1> QED BY <1>2, <1>4, <1>7, <1>8, <1>9, <1>10

\* Nothing is alive that was not, and playback is as it was counted.
Idles ==
    /\ CaptureMoved = 0 /\ PlaybackMoved = 0 /\ OthersMoved \in Int /\ OthersMoved <= 0
    /\ flag.streaming => OthersMoved = 0
    /\ task'.pc = "playback-reserve" => inFlight["playback"] < Lead
    /\ Hot' => Hot \/ flag.streaming

LEMMA NothingMoved ==
    ASSUME IInv, OnlyTask, Idles
    PROVE  Accounted
  <1>1. inFlight["capture"] \in Int /\ inFlight["playback"] \in Int
    BY Constants DEF IInv, Types, Directions
  <1>2. inFlight' = inFlight
    BY DEF OnlyTask
  <1>3. CaptureMoved = 0 /\ PlaybackMoved = 0 /\ OthersMoved \in Int /\ OthersMoved <= 0
    BY DEF Idles
  <1>4. /\ inFlight'["capture"] = inFlight["capture"] + CaptureMoved
        /\ inFlight'["playback"] = inFlight["playback"] + PlaybackMoved
        /\ ~(CaptureMoved > 0) /\ ~(PlaybackMoved > 0)
    BY <1>1, <1>2, <1>3
  <1>5. CaptureMoved + OthersMoved <= 0
    BY <1>3
  <1>6. flag.streaming => CaptureMoved + OthersMoved = 0
    <2> SUFFICES ASSUME flag.streaming PROVE CaptureMoved + OthersMoved = 0
      OBVIOUS
    <2>1. OthersMoved = 0
      BY DEF Idles
    <2> QED BY <1>3, <2>1
  <1> QED BY <1>2, <1>4, <1>5, <1>6 DEF Accounted, Idles

LEMMA WorkerLoopHolds ==
    ASSUME IInv, WorkerLoop
    PROVE  IInv'
  <1>1. Runs(task) /\ task.pc = "worker-loop"
    BY DEF IInv, Types, WorkerLoop
  <1>2. task \in Blocks /\ task.left \in Nat /\ task.kind \in Kinds
    BY <1>1 DEF Runs, Blocks
  <1>3. task.kind = "worker"
    BY <1>1, <1>2 DEF Runs, Submitting, Kinds
  <1>4. CASE RoundLeft /\ flag.streaming
    <2>1. task' = [task EXCEPT !.pc = "capture-entry", !.left = @ - 1] /\ OnlyTask
      BY <1>1, <1>4 DEF WorkerLoop
    <2>2. task.left - 1 \in Nat
      BY <1>2, <1>4 DEF RoundLeft
    <2>3. task'.kind = "worker" /\ task'.pc = "capture-entry" /\ task'.left = task.left - 1
      BY <1>2, <1>3, <2>1 DEF Blocks
    <2>4. task' \in Blocks
      BY <1>2, <2>1, <2>2 DEF Blocks, Places, Submitting
    <2>5. Runs(task')
      BY <2>3, <2>4 DEF Runs, Submitting
    <2>6. /\ Alive = 0 /\ Alive' = 0 /\ Playing = 0 /\ Playing' = 0
          /\ Going = 0 /\ Going' = 1 /\ Left = task.left /\ Left' = task.left - 1
      BY <1>1, <1>3, <2>3 DEF Alive, Playing, Going, Left, Running
    <2>7. /\ CaptureMoved = Alive' - Alive /\ PlaybackMoved = Playing' - Playing
          /\ OthersMoved = (Going' + Left') - (Going + Left)
      BY <2>1, <2>5, LooksOnly
    <2>8. CaptureMoved = 0 /\ PlaybackMoved = 0 /\ OthersMoved = 0
      BY <1>2, <2>6, <2>7
    <2>9. ~Hot' /\ task'.pc # "playback-reserve"
      BY <2>3 DEF Hot
    <2>10. Accounted
      <3>1. OthersMoved \in Int /\ OthersMoved <= 0
        BY <2>8
      <3>2. Idles
        BY <2>8, <2>9, <3>1 DEF Idles
      <3> QED BY <2>1, <3>2, NothingMoved
    <2> QED BY <2>1, <2>5, <2>10, LooksOnly
  <1>5. CASE ~(RoundLeft /\ flag.streaming)
    <2>1. task' = NoTask /\ OnlyTask
      BY <1>5 DEF WorkerLoop, Finish
    <2>2. Runs(task') /\ ~Hot' /\ task'.pc # "playback-reserve"
      BY <2>1 DEF NoTask, Runs, Blocks, Kinds, Places, Hot
    <2>3. /\ Alive = 0 /\ Alive' = 0 /\ Playing = 0 /\ Playing' = 0
          /\ Going = 0 /\ Going' = 0 /\ Left = task.left /\ Left' = 0
      BY <1>1, <1>3, <2>1 DEF NoTask, Alive, Playing, Going, Left, Running
    <2>4. /\ CaptureMoved = Alive' - Alive /\ PlaybackMoved = Playing' - Playing
          /\ OthersMoved = (Going' + Left') - (Going + Left)
      BY <2>1, <2>2, LooksOnly
    <2>5. CaptureMoved = 0 /\ PlaybackMoved = 0 /\ OthersMoved = 0 - task.left
      BY <1>2, <2>3, <2>4
    <2>6. flag.streaming => OthersMoved = 0
      <3> SUFFICES ASSUME flag.streaming PROVE OthersMoved = 0
        OBVIOUS
      <3>1. task.left = 0
        BY <1>2, <1>5 DEF RoundLeft
      <3> QED BY <2>5, <3>1
    <2>7. OthersMoved \in Int /\ OthersMoved <= 0
      BY <1>2, <2>5
    <2>8. Accounted
      <3>1. Idles
        BY <2>2, <2>5, <2>6, <2>7 DEF Idles
      <3> QED BY <2>1, <3>1, NothingMoved
    <2> QED BY <2>1, <2>2, <2>8, LooksOnly
  <1> QED BY <1>4, <1>5

\* A block that ends stands for nothing.
LEMMA Ends ==
    ASSUME task' = NoTask
    PROVE  /\ Runs(task')
           /\ Alive' = 0 /\ Going' = 0 /\ Playing' = 0 /\ Left' = 0
           /\ ~Hot' /\ task'.pc # "playback-reserve"
  BY DEF NoTask, Blocks, Kinds, Places, Runs, Alive, Going, Playing, Left, Running, Hot

\* Where queueCaptureTransfer returns to, no transfer of its own is left over.
LEMMA Returns ==
    ASSUME Runs(task), task.pc \in Submitting, task' = Return(task)
    PROVE  /\ Runs(task')
           /\ Alive' = 0 /\ Going' = 0 /\ Playing' = 0 /\ Left' = Left
           /\ ~Hot' /\ task'.pc # "playback-reserve"
  <1>1. task \in Blocks /\ task.kind \in {"worker", "retry", "capture"}
    BY DEF Runs, Blocks, Kinds, Submitting
  <1>2. CASE task.kind = "worker"
    <2>1. task' = [task EXCEPT !.pc = "worker-loop"]
      BY <1>2 DEF Return
    <2>2. task' \in Blocks /\ task'.kind = "worker" /\ task'.pc = "worker-loop"
          /\ task'.left = task.left
      BY <1>1, <1>2, <2>1 DEF Blocks, Places
    <2> QED BY <1>2, <2>2 DEF Runs, Alive, Going, Playing, Left, Running, Hot
  <1>3. CASE task.kind = "capture"
    <2>1. task' = [task EXCEPT !.pc = "pacing"]
      BY <1>3 DEF Return
    <2>2. task' \in Blocks /\ task'.kind = "capture" /\ task'.pc = "pacing"
      BY <1>1, <1>3, <2>1 DEF Blocks, Places
    <2> QED BY <1>3, <2>2 DEF Runs, Alive, Going, Playing, Left, Running, Hot
  <1>4. CASE task.kind = "retry"
    <2>1. task' = NoTask
      BY <1>4 DEF Return
    <2>2. /\ Runs(task')
          /\ Alive' = 0 /\ Going' = 0 /\ Playing' = 0 /\ Left' = 0
          /\ ~Hot' /\ task'.pc # "playback-reserve"
      BY <2>1, Ends
    <2>3. Left = 0
      BY <1>4 DEF Left
    <2> QED BY <2>2, <2>3
  <1> QED BY <1>1, <1>2, <1>3, <1>4

LEMMA CaptureEntryHolds ==
    ASSUME IInv, CaptureEntry
    PROVE  IInv'
  <1>1. Runs(task) /\ task.pc = "capture-entry" /\ OnlyTask
    BY DEF IInv, Types, CaptureEntry
  <1>2. task \in Blocks
    BY <1>1 DEF Runs
  <1>3. Alive = 0 /\ Going = 1 /\ Playing = 0 /\ Left \in Nat
    BY <1>1, <1>2 DEF Alive, Going, Playing, Left, Running, Blocks
  <1>4. CASE flag.streaming
    <2>1. task' = [task EXCEPT !.pc = "capture-reserve"]
      BY <1>4 DEF CaptureEntry
    <2>2. task' \in Blocks /\ task'.kind = task.kind /\ task'.pc = "capture-reserve"
          /\ task'.left = task.left
      BY <1>2, <2>1 DEF Blocks, Places, Submitting
    <2>3. Runs(task')
      BY <1>1, <2>2 DEF Runs, Submitting
    <2>4. Alive' = 0 /\ Going' = 1 /\ Playing' = 0 /\ Left' = Left
      BY <2>2 DEF Alive, Going, Playing, Left, Running
    <2>5. /\ CaptureMoved = Alive' - Alive /\ PlaybackMoved = Playing' - Playing
          /\ OthersMoved = (Going' + Left') - (Going + Left)
      BY <1>1, <2>3, LooksOnly
    <2>6. CaptureMoved = 0 /\ PlaybackMoved = 0 /\ OthersMoved = 0
      BY <1>3, <2>4, <2>5
    <2>7. Idles
      <3>1. OthersMoved \in Int /\ OthersMoved <= 0
        BY <2>6
      <3> QED BY <1>4, <2>2, <2>6, <3>1 DEF Idles
    <2> QED BY <1>1, <2>3, <2>7, NothingMoved, LooksOnly
  <1>5. CASE ~flag.streaming
    <2>1. task' = Return(task)
      BY <1>5 DEF CaptureEntry
    <2>2. /\ Runs(task')
          /\ Alive' = 0 /\ Going' = 0 /\ Playing' = 0 /\ Left' = Left
          /\ ~Hot' /\ task'.pc # "playback-reserve"
      BY <1>1, <2>1, Returns DEF Submitting
    <2>3. /\ CaptureMoved = Alive' - Alive /\ PlaybackMoved = Playing' - Playing
          /\ OthersMoved = (Going' + Left') - (Going + Left)
      BY <1>1, <2>2, LooksOnly
    <2>4. CaptureMoved = 0 /\ PlaybackMoved = 0 /\ OthersMoved = 0 - 1
      <3>1. Alive' = 0 /\ Going' = 0 /\ Playing' = 0 /\ Left' = Left
        BY <2>2
      <3> QED BY <1>3, <2>3, <3>1
    <2>5. Idles
      <3>1. OthersMoved \in Int /\ OthersMoved <= 0
        BY <2>4
      <3> QED BY <1>5, <2>2, <2>4, <3>1 DEF Idles
    <2> QED BY <1>1, <2>2, <2>5, NothingMoved, LooksOnly
  <1> QED BY <1>4, <1>5

\* A capture that finds no transfer is one less on its way, and one more starved.
LEMMA CaptureStarvedHolds ==
    ASSUME IInv, CaptureStarved
    PROVE  IInv'
  <1>1. /\ Types /\ QueueInv /\ Runs(task) /\ task.pc = "capture-entry" /\ task' = Return(task)
        /\ flag' = flag /\ api' = api /\ inFlight' = inFlight /\ pipe' = pipe
        /\ queue' = queue /\ retries' = retries
    BY DEF IInv, Types, CaptureStarved
  <1>2. task \in Blocks
    BY <1>1 DEF Runs
  <1>3. Alive = 0 /\ Going = 1 /\ Playing = 0 /\ Left \in Nat
    BY <1>1, <1>2 DEF Alive, Going, Playing, Left, Running, Blocks
  <1>4. /\ Runs(task')
        /\ Alive' = 0 /\ Going' = 0 /\ Playing' = 0 /\ Left' = Left
        /\ ~Hot' /\ task'.pc # "playback-reserve"
    BY <1>1, Returns DEF Submitting
  <1>5. /\ used' \in [sessions : Nat, stops : Nat, failures : Nat, starved : Nat]
        /\ used'.sessions = used.sessions
        /\ used.starved \in Nat /\ used'.starved = used.starved + 1
    <2>1. /\ used' = [used EXCEPT !.failures = @ + 1, !.starved = @ + 1]
          /\ used \in [sessions : Nat, stops : Nat, failures : Nat, starved : Nat]
      BY <1>1 DEF Types, CaptureStarved
    <2>2. /\ used.failures \in Nat /\ used.failures + 1 \in Nat
          /\ used.starved \in Nat /\ used.starved + 1 \in Nat
      BY <2>1
    <2> QED BY <2>1, <2>2
  <1>6. Types'
    BY <1>1, <1>4, <1>5, QueueKept DEF Types
  <1>7. PartsAdd /\ PartsAdd'
    BY <1>1, <1>6, Parts, PartsAfter
  <1>8. CaptureMoved = 0 /\ PlaybackMoved = 0 /\ OthersMoved = 0 - 1
    <2>1. pipe["capture"] \in Nat /\ pipe["playback"] \in Nat /\ retries \in Nat
      BY <1>1 DEF Types, Directions
    <2> QED BY <1>1, <1>3, <1>4, <2>1 DEF CaptureMoved, PlaybackMoved, OthersMoved
  <1>9. /\ CaptureAlive \in Nat /\ PlaybackAlive \in Nat /\ Carried \in Nat /\ Queued \in Nat
        /\ Chains = Carried + Queued /\ Chains' = Carried' + Queued' /\ Queued' = Queued
    BY <1>1, <1>7 DEF PartsAdd, Queued
  <1>10. CaptureAlive' = CaptureAlive /\ PlaybackAlive' = PlaybackAlive /\ Carried' = Carried - 1
    <2>1. /\ CaptureAlive' = CaptureAlive + CaptureMoved
          /\ PlaybackAlive' = PlaybackAlive + PlaybackMoved
          /\ Carried' = Carried + CaptureMoved + OthersMoved
      BY <1>1, <1>6, Accounts
    <2> QED BY <1>8, <1>9, <2>1
  <1>11. Chains \in Nat /\ Chains' = Chains - 1
    BY <1>9, <1>10
  <1>12. CaptureInv'
    <2>1. Budget \in Nat /\ Budget' = Budget
      BY <1>1, <1>5, BudgetHolds DEF Types, Budget
    <2>2. CaptureInv
      BY DEF IInv
    <2>3. inFlight'["capture"] = CaptureAlive'
      BY <1>1, <1>10, <2>2 DEF CaptureInv
    <2>4. Chains' + (IF api'.pc = "reset" THEN CaptureDepth ELSE 0) <= Budget'
      BY <1>1, <1>11, <2>1, <2>2, Constants DEF CaptureInv
    <2>5. Chains' + used'.starved = Chains + used.starved
      BY <1>5, <1>11
    <2> QED BY <1>1, <2>2, <2>3, <2>4, <2>5 DEF CaptureInv
  <1>13. ApiInv'
    BY <1>1 DEF IInv, ApiInv
  <1>14. PlaybackInv'
    BY <1>1, <1>4, <1>10 DEF IInv, PlaybackInv
  <1>15. DrainInv'
    BY <1>1, <1>4, <1>10 DEF IInv, DrainInv
  <1> QED BY <1>6, <1>12, <1>13, <1>14, <1>15 DEF IInv

\* The end of the capture handler, and its loop over playback, move no capture.
PacesOn ==
    /\ task.kind = "capture" /\ task.pc \in {"pacing", "playback-loop"}
    /\ Runs(task')
    /\ Alive' = 0 /\ Going' = 0 /\ Playing' = 0 /\ Left' = 0
    /\ task'.pc = "playback-reserve" => inFlight["playback"] < Lead
    /\ Hot' => flag.streaming

LEMMA PacesHolds ==
    ASSUME IInv, OnlyTask, PacesOn
    PROVE  IInv'
  <1>1. Alive = 0 /\ Going = 0 /\ Playing = 0 /\ Left = 0
    BY DEF PacesOn, Alive, Going, Playing, Left, Running
  <1>2. Runs(task') /\ Alive' = 0 /\ Going' = 0 /\ Playing' = 0 /\ Left' = 0
    BY DEF PacesOn
  <1>3. /\ CaptureMoved = Alive' - Alive /\ PlaybackMoved = Playing' - Playing
        /\ OthersMoved = (Going' + Left') - (Going + Left)
    BY <1>2, LooksOnly
  <1>4. CaptureMoved = 0 /\ PlaybackMoved = 0 /\ OthersMoved = 0
    <2>1. Alive' = 0 /\ Going' = 0 /\ Playing' = 0 /\ Left' = 0
      BY <1>2
    <2>2. /\ CaptureMoved = Alive - Alive /\ PlaybackMoved = Playing - Playing
          /\ OthersMoved = (Going + Left) - (Going + Left)
      BY <1>1, <1>3, <2>1
    <2>3. Alive \in Nat /\ Playing \in Nat /\ Going \in Nat /\ Left \in Nat
      BY <1>1
    <2> QED BY <2>2, <2>3
  <1>5. Idles
    <2>1. OthersMoved \in Int /\ OthersMoved <= 0
      BY <1>4
    <2> QED BY <1>4, <2>1 DEF Idles, PacesOn
  <1> QED BY <1>2, <1>5, NothingMoved, LooksOnly

LEMMA PacingHolds ==
    ASSUME IInv, Pacing
    PROVE  IInv'
  <1>1. Runs(task) /\ task.pc = "pacing" /\ OnlyTask
    BY DEF IInv, Types, Pacing
  <1>2. task \in Blocks /\ task.kind = "capture"
    BY <1>1 DEF Runs, Blocks, Kinds, Submitting
  <1>3. CASE task' = NoTask
    BY <1>1, <1>2, <1>3, Ends, PacesHolds DEF PacesOn
  <1>4. CASE task' = [task EXCEPT !.pc = "playback-loop", !.left = Lead]
    <2>1. task' \in Blocks /\ task'.kind = "capture" /\ task'.pc = "playback-loop"
      BY <1>2, <1>4, Constants DEF Blocks, Places
    <2>2. PacesOn
      BY <1>1, <1>2, <2>1 DEF PacesOn, Runs, Alive, Going, Playing, Left, Running, Hot
    <2> QED BY <1>1, <1>2, <2>2, PacesHolds
  <1> QED BY <1>3, <1>4 DEF Pacing, Finish

LEMMA PlaybackLoopHolds ==
    ASSUME IInv, PlaybackLoop
    PROVE  IInv'
  <1>1. Runs(task) /\ task.pc = "playback-loop" /\ OnlyTask
    BY DEF IInv, Types, PlaybackLoop
  <1>2. task \in Blocks /\ task.kind = "capture" /\ task.left \in Nat
    BY <1>1 DEF Runs, Blocks, Kinds, Submitting
  <1>3. CASE task' = NoTask
    BY <1>1, <1>2, <1>3, Ends, PacesHolds DEF PacesOn
  <1>4. CASE /\ task.left > 0 /\ flag.streaming /\ ~AtLead
             /\ task' = [task EXCEPT !.pc = "playback-reserve", !.left = @ - 1]
    <2>1. task' \in Blocks /\ task'.kind = "capture" /\ task'.pc = "playback-reserve"
      <3>1. task.left - 1 \in Nat
        BY <1>2, <1>4
      <3>2. task' = [task EXCEPT !.pc = "playback-reserve", !.left = @ - 1]
        BY <1>4
      <3> QED BY <1>2, <3>1, <3>2 DEF Blocks, Places
    <2>2. inFlight["playback"] < Lead
      <3>1. inFlight["playback"] \in Int /\ Lead \in Int
        BY Constants DEF IInv, Types, Directions
      <3> QED BY <1>4, <3>1 DEF AtLead
    <2>3. PacesOn
      BY <1>1, <1>2, <1>4, <2>1, <2>2 DEF PacesOn, Runs, Alive, Going, Playing, Left, Running, Hot
    <2> QED BY <1>1, <1>2, <2>3, PacesHolds
  <1> QED BY <1>3, <1>4 DEF PlaybackLoop, PlaybackWanted, Finish

LEMMA PlaybackLoadHolds ==
    ASSUME IInv, PlaybackLoad
    PROVE  IInv'
  <1>1. Runs(task) /\ task.pc = "load" /\ OnlyTask /\ Types /\ PartsAdd
    BY Parts DEF IInv, Types, PlaybackLoad
  <1>2. task \in Blocks /\ task.kind = "playback"
    BY <1>1 DEF Runs, Blocks, Kinds, Submitting
  <1>3. Alive = 0 /\ Going = 0 /\ Playing = 1 /\ Left = 0
    BY <1>1, <1>2 DEF Alive, Going, Playing, Left, Running
  <1>4. CASE inFlight["playback"] > 0
    <2>1. task' = [task EXCEPT !.pc = "subtract"]
      BY <1>4 DEF PlaybackLoad, Jump
    <2>2. task' \in Blocks /\ task'.kind = "playback" /\ task'.pc = "subtract"
      BY <1>2, <2>1 DEF Blocks, Places
    <2>3. Runs(task') /\ ~Hot'
      BY <2>2 DEF Runs, Hot
    <2>4. Alive' = 0 /\ Going' = 0 /\ Playing' = 1 /\ Left' = 0
      BY <2>2 DEF Alive, Going, Playing, Left, Running
    <2>5. /\ CaptureMoved = Alive' - Alive /\ PlaybackMoved = Playing' - Playing
          /\ OthersMoved = (Going' + Left') - (Going + Left)
      BY <1>1, <2>3, LooksOnly
    <2>6. CaptureMoved = 0 /\ PlaybackMoved = 0 /\ OthersMoved = 0
      BY <1>3, <2>4, <2>5
    <2>7. Idles
      <3>1. OthersMoved \in Int /\ OthersMoved <= 0
        BY <2>6
      <3> QED BY <2>2, <2>3, <2>6, <3>1 DEF Idles
    <2> QED BY <1>1, <2>3, <2>7, NothingMoved, LooksOnly
  \* A counter that is exact is not zero here, so the session before did not drain.
  <1>5. CASE ~(inFlight["playback"] > 0)
    <2>1. task' = NoTask
      BY <1>5 DEF PlaybackLoad, Finish
    <2>2. /\ Runs(task')
          /\ Alive' = 0 /\ Going' = 0 /\ Playing' = 0 /\ Left' = 0
          /\ ~Hot' /\ task'.pc # "playback-reserve"
      BY <2>1, Ends
    <2>3. /\ CaptureMoved = Alive' - Alive /\ PlaybackMoved = Playing' - Playing
          /\ OthersMoved = (Going' + Left') - (Going + Left)
      BY <1>1, <2>2, LooksOnly
    <2>4. CaptureMoved = 0 /\ PlaybackMoved = 0 - 1 /\ OthersMoved = 0
      <3>1. Alive' = 0 /\ Going' = 0 /\ Playing' = 0 /\ Left' = 0
        BY <2>2
      <3> QED BY <1>3, <2>3, <3>1
    <2>5. flag.unsafe
      <3> SUFFICES ASSUME ~flag.unsafe PROVE FALSE
        OBVIOUS
      <3>1. inFlight["playback"] = PlaybackAlive
        BY DEF IInv, PlaybackInv
      <3>2. PlaybackAlive = pipe["playback"] + Waiting("playback") + Playing
            /\ pipe["playback"] \in Nat /\ Waiting("playback") \in Nat
        BY <1>1 DEF PartsAdd
      <3> QED BY <1>3, <1>5, <3>1, <3>2
    <2>6. inFlight' = inFlight /\ inFlight["capture"] \in Int
      BY <1>1, Constants DEF OnlyTask, Types, Directions
    <2>7. /\ inFlight'["capture"] = inFlight["capture"] + CaptureMoved
          /\ CaptureMoved + OthersMoved = 0 /\ CaptureMoved + OthersMoved <= 0
          /\ ~(CaptureMoved > 0) /\ ~(PlaybackMoved > 0)
      BY <2>4, <2>6
    <2>8. Accounted
      BY <2>2, <2>5, <2>7 DEF Accounted
    <2> QED BY <1>1, <2>2, <2>8, LooksOnly
  <1> QED BY <1>4, <1>5

(***************************************************************************)
(* The steps that count and submit                                         *)
(***************************************************************************)
\* What every one of them keeps, and the types of what it changes.
Submits ==
    /\ flag' = flag /\ api' = api /\ queue' = queue
    /\ used'.sessions = used.sessions /\ used'.starved = used.starved
    /\ used' \in [sessions : Nat, stops : Nat, failures : Nat, starved : Nat]
    /\ inFlight' \in [Directions -> 0 .. CounterSize - 1]
    /\ pipe' \in [Directions -> Nat] /\ retries' \in Nat
    /\ Runs(task')

LEMMA SubmitsHolds ==
    ASSUME IInv, Submits, Accounted
    PROVE  IInv'
  <1>1. Types'
    BY QueueKept DEF IInv, Types, Submits
  <1> QED BY <1>1, Moves DEF Submits

\* A loop over playback that finds no transfer ends, and has counted nothing.
LEMMA PlaybackStarvedHolds ==
    ASSUME IInv, PlaybackStarved
    PROVE  IInv'
  <1>1. /\ Types /\ Runs(task) /\ task.pc = "playback-loop" /\ task' = NoTask
        /\ UNCHANGED <<flag, api, inFlight, pipe, queue, retries>>
    BY DEF IInv, Types, PlaybackStarved, Finish
  <1>2. task.kind = "capture"
    BY <1>1 DEF Runs, Blocks, Kinds, Submitting
  <1>3. Alive = 0 /\ Going = 0 /\ Playing = 0 /\ Left = 0
    BY <1>1, <1>2 DEF Alive, Going, Playing, Left, Running
  <1>4. /\ Runs(task')
        /\ Alive' = 0 /\ Going' = 0 /\ Playing' = 0 /\ Left' = 0
        /\ ~Hot' /\ task'.pc # "playback-reserve"
    BY <1>1, Ends
  <1>5. CaptureMoved = 0 /\ PlaybackMoved = 0 /\ OthersMoved = 0
    <2>1. pipe["capture"] \in Nat /\ pipe["playback"] \in Nat /\ retries \in Nat
      BY <1>1 DEF Types, Directions
    <2> QED BY <1>1, <1>3, <1>4, <2>1 DEF CaptureMoved, PlaybackMoved, OthersMoved
  <1>6. Accounted
    <2>1. inFlight["capture"] \in Int /\ inFlight["playback"] \in Int
      BY <1>1, Constants DEF Types, Directions
    <2> QED BY <1>1, <1>4, <1>5, <2>1 DEF Accounted
  <1>7. Submits
    <2>1. used' \in [sessions : Nat, stops : Nat, failures : Nat, starved : Nat]
          /\ used'.sessions = used.sessions /\ used'.starved = used.starved
      BY <1>1 DEF Types, PlaybackStarved, SpendFailure
    <2> QED BY <1>1, <1>4, <2>1 DEF Submits, Types
  <1> QED BY <1>6, <1>7, SubmitsHolds

LEMMA CounterBounds ==
    ASSUME IInv
    PROVE  /\ inFlight["capture"] \in 0 .. CounterSize - 1
           /\ inFlight["playback"] \in 0 .. CounterSize - 1
           /\ task.pc = "capture-reserve" => inFlight["capture"] + 1 \in 0 .. CounterSize - 1
           /\ task.pc \in {"capture-submit", "release"}
                => inFlight["capture"] - 1 \in 0 .. CounterSize - 1
  <1>1. Types /\ PartsAdd
    BY Parts DEF IInv
  <1>2. inFlight["capture"] \in 0 .. CounterSize - 1 /\ inFlight["playback"] \in 0 .. CounterSize - 1
    BY <1>1 DEF Types, Directions
  <1>3. inFlight["capture"] = CaptureAlive
    BY DEF IInv, CaptureInv
  <1>4. Budget \in Nat /\ Budget < CounterSize
    BY <1>1, BudgetHolds DEF Types
  <1>5. task.pc = "capture-reserve" => inFlight["capture"] + 1 \in 0 .. CounterSize - 1
    <2> SUFFICES ASSUME task.pc = "capture-reserve"
                 PROVE  inFlight["capture"] + 1 \in 0 .. CounterSize - 1
      OBVIOUS
    <2>1. Going = 1
      BY DEF Going, Running
    <2>2. Chains <= Budget
      <3> DEFINE extra == IF api.pc = "reset" THEN CaptureDepth ELSE 0
      <3>1. Chains + extra <= Budget /\ extra \in Nat
        BY Constants DEF IInv, CaptureInv
      <3>2. Chains \in Nat
        BY <1>1 DEF PartsAdd
      <3> HIDE DEF extra
      <3> QED BY <1>4, <3>1, <3>2
    <2>3. /\ Chains = Carried + Queued /\ Queued \in Nat
          /\ CaptureAlive \in Nat /\ retries \in Nat /\ Waiting("retry") \in Nat
          /\ Rounds(queue) \in Nat /\ Left \in Nat
      BY <1>1 DEF PartsAdd
    <2>4. Carried = CaptureAlive + retries + Waiting("retry") + Rounds(queue) + Left + 1
      BY <2>1 DEF Carried
    <2>5. CaptureAlive + 1 < CounterSize
      BY <1>4, <2>2, <2>3, <2>4, Constants
    <2> QED BY <1>3, <2>3, <2>5, Constants
  <1>6. task.pc \in {"capture-submit", "release"}
          => inFlight["capture"] - 1 \in 0 .. CounterSize - 1
    <2>1. task.pc \in {"capture-submit", "release"} => Alive = 1
      BY DEF Alive, Running
    <2>2. Alive = 1 => inFlight["capture"] - 1 \in 0 .. CounterSize - 1
      <3> SUFFICES ASSUME Alive = 1 PROVE inFlight["capture"] - 1 \in 0 .. CounterSize - 1
        OBVIOUS
      <3>1. CaptureAlive = pipe["capture"] + Waiting("capture") + Alive
            /\ pipe["capture"] \in Nat /\ Waiting("capture") \in Nat
        BY <1>1 DEF PartsAdd
      <3> QED BY <1>2, <1>3, <3>1, Constants
    <2> QED BY <2>1, <2>2
  <1> QED BY <1>2, <1>5, <1>6

LEMMA ReserveCaptureHolds ==
    ASSUME IInv, Reserve("capture", "capture-reserve", "capture-submit")
    PROVE  IInv'
  <1>1. Runs(task) /\ task.pc = "capture-reserve" /\ Types /\ PartsAdd
        /\ task' = [task EXCEPT !.pc = "capture-submit"]
    BY Parts DEF IInv, Types, Reserve, Jump
  <1>2. task \in Blocks
    BY <1>1 DEF Runs
  <1>3. task' \in Blocks /\ task'.kind = task.kind /\ task'.pc = "capture-submit"
        /\ task'.left = task.left
    BY <1>1, <1>2 DEF Blocks, Places, Submitting
  <1>4. Runs(task') /\ Hot
    BY <1>1, <1>3 DEF Runs, Submitting, Hot
  <1>5. /\ inFlight'["capture"] = inFlight["capture"] + 1
        /\ inFlight'["playback"] = inFlight["playback"]
        /\ inFlight' \in [Directions -> 0 .. CounterSize - 1]
    <2>1. inFlight["capture"] + 1 \in 0 .. CounterSize - 1
      BY <1>1, CounterBounds
    <2>2. (inFlight["capture"] + 1) % CounterSize = inFlight["capture"] + 1
      BY <2>1, Remainders
    <2>3. inFlight' = [inFlight EXCEPT !["capture"] = inFlight["capture"] + 1]
      BY <2>2 DEF Reserve, More
    <2> QED BY <1>1, <2>1, <2>3 DEF Types, Directions
  <1>6. Submits
    BY <1>1, <1>4, <1>5 DEF Submits, Types, Reserve
  <1>7. /\ Alive = 0 /\ Alive' = 1 /\ Playing = 0 /\ Playing' = 0
        /\ Going = 1 /\ Going' = 0 /\ Left' = Left
    BY <1>1, <1>3 DEF Alive, Playing, Going, Left, Running
  <1>8. /\ CaptureMoved = (pipe["capture"] + 1) - (pipe["capture"] + 0)
        /\ PlaybackMoved = (pipe["playback"] + 0) - (pipe["playback"] + 0)
        /\ OthersMoved = (retries + 0 + Left) - (retries + 1 + Left)
    BY <1>7 DEF CaptureMoved, PlaybackMoved, OthersMoved, Reserve
  <1>9. CaptureMoved = 1 /\ PlaybackMoved = 0 /\ OthersMoved = 0 - 1
    <2>1. pipe["capture"] \in Nat /\ pipe["playback"] \in Nat /\ retries \in Nat /\ Left \in Nat
      BY <1>1 DEF PartsAdd
    <2> QED BY <1>8, <2>1
  <1>10. Accounted
    <2>1. inFlight["playback"] \in Int
      BY CounterBounds
    <2>2. /\ inFlight'["capture"] = inFlight["capture"] + CaptureMoved
          /\ inFlight'["playback"] = inFlight["playback"] + PlaybackMoved
          /\ CaptureMoved + OthersMoved = 0 /\ CaptureMoved + OthersMoved <= 0
          /\ ~(PlaybackMoved > 0)
      BY <1>5, <1>9, <2>1
    <2> QED BY <1>3, <1>4, <2>2 DEF Accounted
  <1> QED BY <1>6, <1>10, SubmitsHolds

LEMMA ReservePlaybackHolds ==
    ASSUME IInv, Reserve("playback", "playback-reserve", "playback-submit")
    PROVE  IInv'
  <1>1. Runs(task) /\ task.pc = "playback-reserve" /\ Types /\ PartsAdd
        /\ task' = [task EXCEPT !.pc = "playback-submit"]
    BY Parts DEF IInv, Types, Reserve, Jump
  <1>2. task \in Blocks /\ task.kind = "capture"
    BY <1>1 DEF Runs, Blocks, Kinds, Submitting
  <1>3. task' \in Blocks /\ task'.kind = "capture" /\ task'.pc = "playback-submit"
    BY <1>1, <1>2 DEF Blocks, Places
  <1>4. Runs(task') /\ Hot
    BY <1>1, <1>3 DEF Runs, Hot
  <1>5. inFlight["capture"] \in Nat /\ inFlight["playback"] \in Nat
    BY CounterBounds
  <1>6. /\ inFlight'["capture"] = inFlight["capture"]
        /\ flag.unsafe \/ inFlight'["playback"] = inFlight["playback"] + 1
        /\ inFlight' \in [Directions -> 0 .. CounterSize - 1]
    <2>1. inFlight' = [inFlight EXCEPT !["playback"] = (inFlight["playback"] + 1) % CounterSize]
      BY DEF Reserve, More
    <2>2. (inFlight["playback"] + 1) % CounterSize \in 0 .. CounterSize - 1
      BY <1>5, Remainders
    <2>3. ~flag.unsafe => (inFlight["playback"] + 1) % CounterSize = inFlight["playback"] + 1
      <3> SUFFICES ASSUME ~flag.unsafe
                   PROVE  (inFlight["playback"] + 1) % CounterSize = inFlight["playback"] + 1
        OBVIOUS
      <3>1. inFlight["playback"] < Lead
        BY <1>1 DEF IInv, PlaybackInv
      <3>2. inFlight["playback"] + 1 \in 0 .. CounterSize - 1
        BY <1>5, <3>1, Constants
      <3> QED BY <3>2, Remainders
    <2> QED BY <1>1, <2>1, <2>2, <2>3 DEF Types, Directions
  <1>7. Submits
    BY <1>1, <1>4, <1>6 DEF Submits, Types, Reserve
  <1>8. /\ Alive = 0 /\ Alive' = 0 /\ Playing = 0 /\ Playing' = 1
        /\ Going = 0 /\ Going' = 0 /\ Left = 0 /\ Left' = 0
    BY <1>1, <1>2, <1>3 DEF Alive, Playing, Going, Left, Running
  <1>9. CaptureMoved = 0 /\ PlaybackMoved = 1 /\ OthersMoved = 0
    <2>1. /\ pipe["capture"] \in Nat /\ pipe["playback"] \in Nat /\ retries \in Nat
          /\ pipe' = pipe /\ retries' = retries
      BY <1>1 DEF PartsAdd, Reserve
    <2> QED BY <1>8, <2>1 DEF CaptureMoved, PlaybackMoved, OthersMoved
  <1>10. Accounted
    BY <1>1, <1>3, <1>4, <1>5, <1>6, <1>9 DEF Accounted
  <1> QED BY <1>7, <1>10, SubmitsHolds

LEMMA CaptureSubmittedHolds ==
    ASSUME IInv, CaptureSubmitted
    PROVE  IInv'
  <1>1. Runs(task) /\ task.pc = "capture-submit" /\ Types /\ PartsAdd
        /\ task' = Return(task)
    BY Parts DEF IInv, Types, CaptureSubmitted
  <1>2. /\ Runs(task')
        /\ Alive' = 0 /\ Going' = 0 /\ Playing' = 0 /\ Left' = Left
        /\ ~Hot' /\ task'.pc # "playback-reserve"
    BY <1>1, Returns DEF Submitting
  <1>3. inFlight["capture"] \in Nat /\ inFlight["playback"] \in Nat /\ inFlight' = inFlight
    BY CounterBounds DEF CaptureSubmitted
  <1>4. /\ pipe["capture"] \in Nat /\ pipe["playback"] \in Nat /\ retries \in Nat /\ Left \in Nat
        /\ pipe'["capture"] = pipe["capture"] + 1 /\ pipe'["playback"] = pipe["playback"]
        /\ pipe' \in [Directions -> Nat] /\ retries' = retries
    BY <1>1 DEF PartsAdd, Types, Directions, CaptureSubmitted
  <1>5. Submits
    BY <1>1, <1>2, <1>3, <1>4 DEF Submits, Types, CaptureSubmitted
  <1>6. Alive = 1 /\ Playing = 0 /\ Going = 0
    BY <1>1 DEF Alive, Playing, Going, Running
  <1>7. CaptureMoved = 0 /\ PlaybackMoved = 0 /\ OthersMoved = 0
    BY <1>2, <1>4, <1>6 DEF CaptureMoved, PlaybackMoved, OthersMoved
  <1>8. Accounted
    BY <1>2, <1>3, <1>7 DEF Accounted
  <1> QED BY <1>5, <1>8, SubmitsHolds

\* A capture less is counted: a refused one is about to be retried, a completed one requeued.
LEMMA CaptureCountedOut ==
    ASSUME IInv, task.pc \in {"capture-submit", "release"}, Runs(task'), UNCHANGED <<pipe, retries>>,
           inFlight' = Less("capture"), Alive' = 0, Going' = 1, Playing' = 0, Left' = Left, ~Hot',
           task'.pc # "playback-reserve"
    PROVE  Accounted /\ inFlight' \in [Directions -> 0 .. CounterSize - 1]
  <1>1. Types /\ PartsAdd
    BY Parts DEF IInv
  <1>2. inFlight["capture"] \in Nat /\ inFlight["playback"] \in Nat
    BY CounterBounds
  <1>3. /\ inFlight'["capture"] = inFlight["capture"] - 1
        /\ inFlight'["playback"] = inFlight["playback"]
        /\ inFlight' \in [Directions -> 0 .. CounterSize - 1]
    <2>1. inFlight["capture"] - 1 \in 0 .. CounterSize - 1
      BY CounterBounds
    <2>2. (inFlight["capture"] - 1) % CounterSize = inFlight["capture"] - 1
      BY <2>1, Remainders
    <2>3. inFlight' = [inFlight EXCEPT !["capture"] = inFlight["capture"] - 1]
      BY <2>2 DEF Less
    <2> QED BY <1>1, <2>1, <2>3 DEF Types, Directions
  <1>4. Alive = 1 /\ Playing = 0 /\ Going = 0
    BY DEF Alive, Playing, Going, Running
  <1>5. CaptureMoved = 0 - 1 /\ PlaybackMoved = 0 /\ OthersMoved = 1
    <2>1. pipe["capture"] \in Nat /\ pipe["playback"] \in Nat /\ retries \in Nat /\ Left \in Nat
      BY <1>1 DEF PartsAdd
    <2> QED BY <1>4, <2>1 DEF CaptureMoved, PlaybackMoved, OthersMoved
  <1>6. Accounted
    BY <1>2, <1>3, <1>5 DEF Accounted
  <1> QED BY <1>3, <1>6

LEMMA CaptureRefusedHolds ==
    ASSUME IInv, CaptureRefused
    PROVE  IInv'
  <1>1. Runs(task) /\ task.pc = "capture-submit" /\ Types
        /\ task' = [task EXCEPT !.pc = "capture-failed"]
    BY DEF IInv, Types, CaptureRefused, Jump
  <1>2. task \in Blocks
    BY <1>1 DEF Runs
  <1>3. task' \in Blocks /\ task'.kind = task.kind /\ task'.pc = "capture-failed"
        /\ task'.left = task.left
    BY <1>1, <1>2 DEF Blocks, Places, Submitting
  <1>4. Runs(task') /\ ~Hot'
    BY <1>1, <1>3 DEF Runs, Submitting, Hot
  <1>5. Alive' = 0 /\ Playing' = 0 /\ Going' = 1 /\ Left' = Left
    BY <1>3 DEF Alive, Playing, Going, Left, Running
  <1>6. Accounted /\ inFlight' \in [Directions -> 0 .. CounterSize - 1]
    <2>1. UNCHANGED <<pipe, retries>> /\ inFlight' = Less("capture")
      BY DEF CaptureRefused, Unreserved
    <2> QED BY <1>1, <1>3, <1>4, <1>5, <2>1, CaptureCountedOut
  <1>7. Submits
    <2>1. used' \in [sessions : Nat, stops : Nat, failures : Nat, starved : Nat]
          /\ used'.sessions = used.sessions /\ used'.starved = used.starved
      BY <1>1 DEF Types, CaptureRefused, SpendFailure
    <2> QED BY <1>1, <1>4, <1>6, <2>1 DEF Submits, Types, CaptureRefused
  <1> QED BY <1>6, <1>7, SubmitsHolds

LEMMA CaptureReleaseHolds ==
    ASSUME IInv, CaptureRelease
    PROVE  IInv'
  <1>1. Runs(task) /\ task.pc = "release" /\ Types
        /\ task' = [task EXCEPT !.pc = "capture-entry"]
    BY DEF IInv, Types, CaptureRelease, Jump
  <1>2. task \in Blocks /\ task.kind = "capture"
    BY <1>1 DEF Runs, Blocks, Kinds, Submitting
  <1>3. task' \in Blocks /\ task'.kind = "capture" /\ task'.pc = "capture-entry"
    BY <1>1, <1>2 DEF Blocks, Places, Submitting
  <1>4. Runs(task') /\ ~Hot'
    BY <1>3 DEF Runs, Submitting, Hot
  <1>5. Alive' = 0 /\ Playing' = 0 /\ Going' = 1 /\ Left' = Left
    BY <1>2, <1>3 DEF Alive, Playing, Going, Left, Running
  <1>6. Accounted /\ inFlight' \in [Directions -> 0 .. CounterSize - 1]
    <2>1. UNCHANGED <<pipe, retries>> /\ inFlight' = Less("capture")
      BY DEF CaptureRelease
    <2> QED BY <1>1, <1>3, <1>4, <1>5, <2>1, CaptureCountedOut
  <1>7. Submits
    BY <1>1, <1>4, <1>6 DEF Submits, Types, CaptureRelease
  <1> QED BY <1>6, <1>7, SubmitsHolds

\* A refused capture becomes a retry, unless the stream has stopped.
LEMMA CaptureFailedHolds ==
    ASSUME IInv, CaptureFailed
    PROVE  IInv'
  <1>1. Runs(task) /\ task.pc = "capture-failed" /\ Types /\ PartsAdd
        /\ task' = Return(task)
    BY Parts DEF IInv, Types, CaptureFailed
  <1>2. /\ Runs(task')
        /\ Alive' = 0 /\ Going' = 0 /\ Playing' = 0 /\ Left' = Left
        /\ ~Hot' /\ task'.pc # "playback-reserve"
    BY <1>1, Returns DEF Submitting
  <1>3. /\ inFlight["capture"] \in Nat /\ inFlight["playback"] \in Nat
        /\ inFlight' = inFlight /\ pipe' = pipe
    BY CounterBounds DEF CaptureFailed
  <1>4. pipe["capture"] \in Nat /\ pipe["playback"] \in Nat /\ retries \in Nat /\ Left \in Nat
    BY <1>1 DEF PartsAdd
  <1>5. retries' = IF flag.streaming THEN retries + 1 ELSE retries
    BY DEF CaptureFailed, RetryLater
  <1>6. Submits
    BY <1>1, <1>2, <1>3, <1>4, <1>5 DEF Submits, Types, CaptureFailed
  <1>7. Alive = 0 /\ Playing = 0 /\ Going = 1
    BY <1>1 DEF Alive, Playing, Going, Running
  <1>8. CaptureMoved = 0 /\ PlaybackMoved = 0
    BY <1>2, <1>3, <1>4, <1>7 DEF CaptureMoved, PlaybackMoved
  <1>9. OthersMoved = IF flag.streaming THEN 0 ELSE 0 - 1
    BY <1>2, <1>4, <1>5, <1>7 DEF OthersMoved
  <1>10. Accounted
    BY <1>2, <1>3, <1>8, <1>9 DEF Accounted
  <1> QED BY <1>6, <1>10, SubmitsHolds

LEMMA PlaybackSubmittedHolds ==
    ASSUME IInv, PlaybackSubmitted
    PROVE  IInv'
  <1>1. Runs(task) /\ task.pc = "playback-submit" /\ Types /\ PartsAdd
        /\ task' = [task EXCEPT !.pc = "playback-loop"]
    BY Parts DEF IInv, Types, PlaybackSubmitted, Jump
  <1>2. task \in Blocks /\ task.kind = "capture"
    BY <1>1 DEF Runs, Blocks, Kinds, Submitting
  <1>3. task' \in Blocks /\ task'.kind = "capture" /\ task'.pc = "playback-loop"
    BY <1>1, <1>2 DEF Blocks, Places
  <1>4. Runs(task') /\ ~Hot'
    BY <1>3 DEF Runs, Hot
  <1>5. inFlight["capture"] \in Nat /\ inFlight["playback"] \in Nat /\ inFlight' = inFlight
    BY CounterBounds DEF PlaybackSubmitted
  <1>6. /\ pipe["capture"] \in Nat /\ pipe["playback"] \in Nat /\ retries \in Nat
        /\ pipe'["playback"] = pipe["playback"] + 1 /\ pipe'["capture"] = pipe["capture"]
        /\ pipe' \in [Directions -> Nat] /\ retries' = retries
    BY <1>1 DEF PartsAdd, Types, Directions, PlaybackSubmitted
  <1>7. Submits
    BY <1>1, <1>4, <1>5, <1>6 DEF Submits, Types, PlaybackSubmitted
  <1>8. /\ Alive = 0 /\ Alive' = 0 /\ Playing = 1 /\ Playing' = 0
        /\ Going = 0 /\ Going' = 0 /\ Left = 0 /\ Left' = 0
    BY <1>1, <1>2, <1>3 DEF Alive, Playing, Going, Left, Running
  <1>9. CaptureMoved = 0 /\ PlaybackMoved = 0 /\ OthersMoved = 0
    BY <1>6, <1>8 DEF CaptureMoved, PlaybackMoved, OthersMoved
  <1>10. Accounted
    BY <1>3, <1>4, <1>5, <1>9 DEF Accounted
  <1> QED BY <1>7, <1>10, SubmitsHolds

\* A playback transfer is counted out: by its completion, or because it was refused.
LEMMA PlaybackCountedOut ==
    ASSUME IInv, task.pc \in {"playback-submit", "subtract"}, task.kind # "worker", task' = NoTask,
           UNCHANGED <<pipe, retries>>, inFlight' = Less("playback")
    PROVE  Accounted /\ inFlight' \in [Directions -> 0 .. CounterSize - 1]
  <1>1. Types /\ PartsAdd
    BY Parts DEF IInv
  <1>2. inFlight["capture"] \in Nat /\ inFlight["playback"] \in 0 .. CounterSize - 1
    BY CounterBounds
  <1>3. Alive = 0 /\ Playing = 1 /\ Going = 0 /\ Left = 0
    BY DEF Alive, Playing, Going, Left, Running
  <1>4. /\ Alive' = 0 /\ Going' = 0 /\ Playing' = 0 /\ Left' = 0
        /\ ~Hot' /\ task'.pc # "playback-reserve"
    BY Ends
  <1>5. pipe["capture"] \in Nat /\ pipe["playback"] \in Nat /\ retries \in Nat
    BY <1>1 DEF PartsAdd
  <1>6. /\ inFlight'["capture"] = inFlight["capture"]
        /\ flag.unsafe \/ inFlight'["playback"] = inFlight["playback"] - 1
        /\ inFlight' \in [Directions -> 0 .. CounterSize - 1]
    <2>1. inFlight' = [inFlight EXCEPT !["playback"] = (inFlight["playback"] - 1) % CounterSize]
      BY DEF Less
    <2>2. (inFlight["playback"] - 1) % CounterSize \in 0 .. CounterSize - 1
      BY <1>2, Remainders
    <2>3. ~flag.unsafe => (inFlight["playback"] - 1) % CounterSize = inFlight["playback"] - 1
      <3> SUFFICES ASSUME ~flag.unsafe
                   PROVE  (inFlight["playback"] - 1) % CounterSize = inFlight["playback"] - 1
        OBVIOUS
      <3>1. inFlight["playback"] = pipe["playback"] + Waiting("playback") + 1
            /\ Waiting("playback") \in Nat
        BY <1>1, <1>3 DEF IInv, PlaybackInv, PartsAdd
      <3>2. inFlight["playback"] - 1 \in 0 .. CounterSize - 1
        BY <1>2, <1>5, <3>1, Constants
      <3> QED BY <3>2, Remainders
    <2> QED BY <1>1, <2>1, <2>2, <2>3 DEF Types, Directions
  <1>7. CaptureMoved = 0 /\ PlaybackMoved = 0 - 1 /\ OthersMoved = 0
    BY <1>3, <1>4, <1>5 DEF CaptureMoved, PlaybackMoved, OthersMoved
  <1>8. Accounted
    BY <1>2, <1>4, <1>6, <1>7 DEF Accounted
  <1> QED BY <1>6, <1>8

LEMMA PlaybackRefusedHolds ==
    ASSUME IInv, PlaybackRefused
    PROVE  IInv'
  <1>1. Runs(task) /\ task.pc = "playback-submit" /\ Types /\ task' = NoTask
    BY DEF IInv, Types, PlaybackRefused, Finish
  <1>2. task.kind # "worker"
    BY <1>1 DEF Runs, Submitting
  <1>3. Accounted /\ inFlight' \in [Directions -> 0 .. CounterSize - 1]
    <2>1. UNCHANGED <<pipe, retries>> /\ inFlight' = Less("playback")
      BY DEF PlaybackRefused, Unreserved
    <2> QED BY <1>1, <1>2, <2>1, PlaybackCountedOut
  <1>4. Submits
    <2>1. used' \in [sessions : Nat, stops : Nat, failures : Nat, starved : Nat]
          /\ used'.sessions = used.sessions /\ used'.starved = used.starved
      BY <1>1 DEF Types, PlaybackRefused, SpendFailure
    <2> QED BY <1>1, <1>3, <2>1, Ends DEF Submits, Types, PlaybackRefused
  <1> QED BY <1>3, <1>4, SubmitsHolds

LEMMA PlaybackSubtractHolds ==
    ASSUME IInv, PlaybackSubtract
    PROVE  IInv'
  <1>1. Runs(task) /\ task.pc = "subtract" /\ Types /\ task' = NoTask
    BY DEF IInv, Types, PlaybackSubtract, Finish
  <1>2. task.kind # "worker"
    BY <1>1 DEF Runs, Submitting
  <1>3. Accounted /\ inFlight' \in [Directions -> 0 .. CounterSize - 1]
    <2>1. UNCHANGED <<pipe, retries>> /\ inFlight' = Less("playback")
      BY DEF PlaybackSubtract
    <2> QED BY <1>1, <1>2, <2>1, PlaybackCountedOut
  <1>4. Submits
    BY <1>1, <1>3, Ends DEF Submits, Types, PlaybackSubtract
  <1> QED BY <1>3, <1>4, SubmitsHolds

\* A sentinel runs when every block before it has ended, and no block submits after it.
LEMMA SignalHolds ==
    ASSUME IInv, Signal
    PROVE  IInv'
  <1>1. /\ Runs(task) /\ task.pc = "signal" /\ Types /\ QueueInv /\ PartsAdd /\ task' = NoTask
        /\ UNCHANGED <<flag, inFlight, pipe, queue, retries, used>>
    BY Parts DEF IInv, Types, Signal, Finish
  <1>2. task.kind = "sentinel"
    BY <1>1 DEF Runs, Blocks, Kinds, Submitting
  <1>3. /\ Runs(task')
        /\ Alive' = 0 /\ Going' = 0 /\ Playing' = 0 /\ Left' = 0
        /\ ~Hot' /\ task'.pc # "playback-reserve"
    BY <1>1, Ends
  <1>4. api' = api \/ (api.pc = "queue-retires" /\ api' = [api EXCEPT !.pc = "playback-drains"])
    BY DEF Signal, Goto
  <1>5. Types'
    <2>1. api' \in [pc : ApiPlaces, closing : BOOLEAN, stopped : {"never", "yes", "no"}]
      BY <1>1, <1>4 DEF Types, ApiPlaces
    <2> QED BY <1>1, <1>3, <2>1, QueueKept DEF Types
  <1>6. CaptureMoved = 0 /\ PlaybackMoved = 0 /\ OthersMoved = 0
    <2>1. Alive = 0 /\ Playing = 0 /\ Going = 0 /\ Left = 0
      BY <1>1, <1>2 DEF Alive, Playing, Going, Left, Running
    <2>2. pipe["capture"] \in Nat /\ pipe["playback"] \in Nat /\ retries \in Nat
      BY <1>1 DEF PartsAdd
    <2> QED BY <1>1, <1>3, <2>1, <2>2 DEF CaptureMoved, PlaybackMoved, OthersMoved
  <1>7. CaptureAlive' = CaptureAlive /\ PlaybackAlive' = PlaybackAlive /\ Chains' = Chains
    <2>1. /\ CaptureAlive \in Nat /\ PlaybackAlive \in Nat /\ Carried \in Nat
          /\ Chains = Carried + Queued /\ Chains' = Carried' + Queued'
      BY <1>1, <1>5, PartsAfter DEF PartsAdd
    <2>2. /\ CaptureAlive' = CaptureAlive + CaptureMoved
          /\ PlaybackAlive' = PlaybackAlive + PlaybackMoved
          /\ Carried' = Carried + CaptureMoved + OthersMoved
      BY <1>1, <1>5, Accounts
    <2>3. Queued' = Queued
      BY <1>1, <1>4 DEF Types, Queued
    <2>4. CaptureAlive' = CaptureAlive /\ PlaybackAlive' = PlaybackAlive /\ Carried' = Carried
      BY <1>6, <2>1, <2>2
    <2> QED BY <2>1, <2>3, <2>4
  <1>8. ApiInv'
    BY <1>1, <1>4 DEF IInv, Types, ApiInv, Stopped
  <1>9. CaptureInv'
    BY <1>1, <1>4, <1>7 DEF IInv, Types, CaptureInv, Budget
  <1>10. PlaybackInv'
    BY <1>1, <1>3, <1>7 DEF IInv, PlaybackInv
  <1>11. DrainInv'
    BY <1>1, <1>3, <1>4, <1>7 DEF IInv, Types, DrainInv
  <1> QED BY <1>5, <1>8, <1>9, <1>10, <1>11 DEF IInv

(***************************************************************************)
(* The theorems                                                            *)
(***************************************************************************)
LEMMA InitHolds == Init => IInv
  <1> SUFFICES ASSUME Init PROVE IInv
    OBVIOUS
  <1>1. QueueInv
    BY DEF Init, QueueInv
  <1>2. Types
    <2>1. Runs(task)
      BY DEF Init, NoTask, Runs, Blocks, Kinds, Places
    <2>2. inFlight \in [Directions -> 0 .. CounterSize - 1]
      BY Constants DEF Init
    <2> QED BY <1>1, <2>1, <2>2, Constants DEF Init, Types, ApiPlaces, Directions
  <1>3. /\ Waiting("capture") = 0 /\ Waiting("playback") = 0 /\ Waiting("retry") = 0
        /\ Rounds(queue) = 0
    <2>1. \A kind : OfKind(queue, kind) = {}
      BY DEF Init, OfKind
    <2>2. \A kind : Cardinality(OfKind(queue, kind)) = 0
      BY <2>1, FS_EmptySet
    <2>3. Rounds(queue) = 0 * CaptureDepth
      BY <1>1, <2>2, RoundsValues
    <2> QED BY <2>2, <2>3, Constants DEF Waiting
  <1>4. Alive = 0 /\ Going = 0 /\ Playing = 0 /\ Left = 0 /\ Queued = 0
    BY DEF Init, NoTask, Alive, Going, Playing, Left, Queued, Running
  <1>5. CaptureAlive = 0 /\ PlaybackAlive = 0 /\ Chains = 0
    <2>1. PartsAdd
      BY <1>2, Parts
    <2>2. CaptureAlive = 0 /\ PlaybackAlive = 0
      BY <1>3, <1>4, <2>1 DEF PartsAdd, Init, Directions
    <2>3. Carried = 0
      BY <1>3, <1>4, <2>2 DEF Carried, Init
    <2>4. Queued = 0
      BY <1>4
    <2>5. Chains = 0
      <3>1. Carried \in Nat /\ Queued \in Nat /\ Chains = Carried + Queued
        BY <2>1 DEF PartsAdd
      <3>2. \A a, b \in Nat : a = 0 /\ b = 0 => a + b = 0
        OBVIOUS
      <3> QED BY <2>3, <2>4, <3>1, <3>2
    <2> QED BY <2>2, <2>5
  <1>6. ApiInv
    BY DEF Init, ApiInv, Stopped
  <1>7. CaptureInv
    <2>1. Budget \in Nat
      BY <1>2, BudgetHolds DEF Types
    <2> QED BY <1>5, <2>1 DEF Init, CaptureInv, Directions
  <1>8. PlaybackInv
    BY <1>5, Constants DEF Init, PlaybackInv, Directions, NoTask
  <1>9. DrainInv
    BY <1>5 DEF Init, DrainInv, Hot, NoTask
  <1> QED BY <1>2, <1>6, <1>7, <1>8, <1>9 DEF IInv

LEMMA StutterHolds ==
    ASSUME IInv, UNCHANGED vars
    PROVE  IInv'
  <1>1. /\ QueueInv /\ UNCHANGED <<pipe, queue, task, retries>>
        /\ UNCHANGED <<flag, api, inFlight, used>>
    BY DEF IInv, Types, vars
  <1>2. /\ CaptureAlive' = CaptureAlive /\ PlaybackAlive' = PlaybackAlive
        /\ Carried' = Carried
        /\ Hot' <=> Hot
        /\ QueueInv'
    BY <1>1, SameWork
  <1>3. Types'
    BY <1>1, <1>2 DEF IInv, Types
  <1>4. Chains' = Chains
    <2>1. PartsAdd /\ PartsAdd' /\ Queued' = Queued
      BY <1>1, <1>3, Parts, PartsAfter DEF IInv, Queued
    <2> QED BY <1>2, <2>1 DEF PartsAdd
  <1>5. ApiInv' /\ CaptureInv' /\ PlaybackInv' /\ DrainInv'
    BY <1>1, <1>2, <1>4 DEF IInv, ApiInv, CaptureInv, Budget, PlaybackInv, DrainInv
  <1> QED BY <1>3, <1>5 DEF IInv

LEMMA StepHolds == IInv /\ [Next]_vars => IInv'
  <1> SUFFICES ASSUME IInv, [Next]_vars PROVE IInv'
    OBVIOUS
  <1>1. CASE UNCHANGED vars
    BY <1>1, StutterHolds
  <1>2. CASE Calls
    BY <1>2, CallHolds
  <1>3. CASE DispatchWorker \/ AbortAndDispatch \/ RetryFires \/ Dequeue
    BY <1>3, DispatchWorkerHolds, AbortAndDispatchHolds, RetryFiresHolds, DequeueHolds
  <1>4. ASSUME NEW d \in Directions, Complete(d) PROVE IInv'
    BY <1>4, CompleteHolds
  <1>5. CASE TaskStep
    BY <1>5, SignalHolds, WorkerLoopHolds, CaptureEntryHolds, CaptureStarvedHolds,
       ReserveCaptureHolds,
       ReservePlaybackHolds, CaptureSubmittedHolds, CaptureRefusedHolds, CaptureFailedHolds,
       CaptureReleaseHolds, PacingHolds, PlaybackLoopHolds,
       PlaybackStarvedHolds, PlaybackSubmittedHolds,
       PlaybackRefusedHolds, PlaybackLoadHolds, PlaybackSubtractHolds
    DEF TaskStep
  <1> QED BY <1>1, <1>2, <1>3, <1>4, <1>5 DEF Next, ApiStep, Calls

\* The invariant holds in every state, for any depth, lead, counter and number of sessions.
THEOREM EngineInvariant == Spec => []IInv
  BY InitHolds, StepHolds, PTL DEF Spec

\* The counters on which waitForTransfersToDrain bases its answer count the transfers of
\* IOUSBHost, and when stop has answered that it drained, or the device is released, no capture
\* is left or about to be submitted.
THEOREM CountsAreTrue == Spec => []TransfersAccounted
  <1>1. IInv => TransfersAccounted
    <2> SUFFICES ASSUME IInv PROVE TransfersAccounted
      OBVIOUS
    <2>1. TypeOK
      <3>1. task.kind \in {"none", "worker", "retry", "sentinel"} \cup Directions
            /\ task.left \in Nat
        BY DEF IInv, Types, Runs, Blocks, Kinds, Directions
      <3> QED BY <3>1 DEF TypeOK, IInv, Types
    <2>2. CountersExact
      BY <2>1 DEF CountersExact, IInv, CaptureInv, PlaybackInv
    <2>3. StoppedIsDrained
      BY DEF IInv, DrainInv, StoppedIsDrained, Hot, Running
    <2> QED BY <2>2, <2>3 DEF TransfersAccounted
  <1> QED BY <1>1, EngineInvariant, PTL

\* A stream keeps its kCaptureQueueDepth captures, in flight or on their way, through refused
\* submissions and whatever earlier sessions left: it loses exactly those that found no transfer;
\* and playback does not pass its lead.
THEOREM CapturesAreKept == Spec => []DepthSustained
  <1>1. IInv => DepthSustained
    BY DEF IInv, CaptureInv, PlaybackInv, DepthSustained
  <1> QED BY <1>1, EngineInvariant, PTL

(***************************************************************************)
(* Who holds a descriptor.  From accept until it is dispatched a connection *)
(* is held by the accept loop, and from then until it is closed by its      *)
(* handler; a connection is made once, so no two of them hold the same, and *)
(* a number that somebody holds names his connection.                       *)
(***************************************************************************)
HandlerPlaces == {"reading", "removing", "closing", "leaving"}
HandlerType == [at : [conn : Conns, fd : Fds], pc : HandlerPlaces]
AcceptorHolding == acceptor.pc \in {"registering", "dispatching"}

AcceptorHolds ==
    AcceptorHolding => /\ acceptor.at \in [conn : arrived, fd : Fds]
                       /\ fdTable[acceptor.at.fd] = acceptor.at.conn
                       /\ \A h \in handlers : h.at.conn # acceptor.at.conn
HandlersHold ==
    \A h \in handlers : /\ h \in HandlerType
                        /\ h.at.conn \in arrived
                        /\ h.pc # "leaving" => fdTable[h.at.fd] = h.at.conn
HandlersDistinct == \A g, h \in handlers : g.at.conn = h.at.conn => g = h
HandlersCounted == IsFiniteSet(handlers) /\ active = Cardinality(handlers)
SlotType == [fd : Fds \cup {Free}, conn : arrived \cup {Free}]
SlotsArrived == slots \in [1 .. Capacity -> SlotType]

HoldInv ==
    /\ IpcTypeOK
    /\ AcceptorHolds
    /\ HandlersHold
    /\ HandlersDistinct
    /\ HandlersCounted
    /\ SlotsArrived
    /\ ~misclosed

\* The connections in the table have arrived.
LEMMA RegisteredArrived == ASSUME SlotsArrived PROVE Registered \subseteq arrived
  BY DEF SlotsArrived, SlotType, Registered

\* A step that moves no descriptor and no handler, and leaves the accept loop where it is or
\* without a connection.
LEMMA SameHolders ==
    ASSUME HoldInv,
           UNCHANGED <<fdTable, slots, handlers, active, arrived, misclosed>>,
           \/ acceptor' = acceptor
           \/ acceptor'.pc \in {"gone", "accepting"},
           session' \in [running : BOOLEAN, open : BOOLEAN, unsafe : BOOLEAN,
                         opens : 0 .. MaxOpens],
           shut' \subseteq arrived,
           closer' \in {"none", "ipc", "queues", "handlers"}
    PROVE  HoldInv'
  <1> USE DEF HoldInv
  <1>1. IpcTypeOK'
    BY DEF IpcTypeOK
  <1>2. AcceptorHolds'
    BY DEF AcceptorHolds, AcceptorHolding
  <1>3. HandlersHold' /\ HandlersDistinct' /\ HandlersCounted' /\ SlotsArrived' /\ ~misclosed'
    BY DEF HandlersHold, HandlersDistinct, HandlersCounted, SlotsArrived, SlotType
  <1> QED BY <1>1, <1>2, <1>3

(***************************************************************************)
(* The accept loop.                                                         *)
(***************************************************************************)
\* accept gives the new connection a number that nobody holds.
LEMMA AcceptHolds ==
    ASSUME HoldInv, NEW c \in Conns, Accept(c)
    PROVE  HoldInv'
  <1> USE DEF HoldInv
  <1>1. PICK f \in Fds : /\ fdTable[f] = Free
                         /\ fdTable' = [fdTable EXCEPT ![f] = c]
                         /\ acceptor' = [pc |-> "registering", at |-> [conn |-> c, fd |-> f]]
    BY DEF Accept
  <1>2. /\ c \notin arrived /\ arrived' = arrived \cup {c}
        /\ UNCHANGED <<session, slots, handlers, active, shut, closer, misclosed>>
    BY DEF Accept
  <1>3. fdTable \in [Fds -> Conns \cup {Free, Other}] /\ arrived \subseteq Conns
    BY DEF IpcTypeOK
  <1>4. fdTable'[f] = c /\ \A g \in Fds : g # f => fdTable'[g] = fdTable[g]
    BY <1>1, <1>3
  <1>5. IpcTypeOK'
    BY <1>1, <1>2, <1>3 DEF IpcTypeOK
  <1>6. AcceptorHolds'
    BY <1>1, <1>2, <1>4 DEF AcceptorHolds, HandlersHold
  <1>7. HandlersHold'
    <2> SUFFICES ASSUME NEW h \in handlers
                 PROVE  /\ h \in HandlerType
                        /\ h.at.conn \in arrived'
                        /\ h.pc # "leaving" => fdTable'[h.at.fd] = h.at.conn
      BY <1>2 DEF HandlersHold
    <2>1. /\ h \in HandlerType /\ h.at.fd \in Fds /\ h.at.conn \in Conns
          /\ h.at.conn \in arrived
          /\ h.pc # "leaving" => fdTable[h.at.fd] = h.at.conn
      BY DEF HandlersHold, HandlerType
    <2> QED BY <1>1, <1>2, <1>4, <2>1, IpcNames
  <1>8. HandlersDistinct' /\ HandlersCounted' /\ SlotsArrived' /\ ~misclosed'
    BY <1>2 DEF HandlersDistinct, HandlersCounted, SlotsArrived, SlotType
  <1> QED BY <1>5, <1>6, <1>7, <1>8

\* Registering keeps the number or closes it: it is the accept loop's own.
LEMMA RegisterHolds ==
    ASSUME HoldInv, Register
    PROVE  HoldInv'
  <1> USE DEF HoldInv
  <1>1. /\ acceptor.pc = "registering" /\ AcceptorHolding
        /\ UNCHANGED <<session, handlers, active, shut, arrived, closer>>
    BY DEF Register, AcceptorHolding
  <1>2. /\ acceptor.at \in [conn : arrived, fd : Fds]
        /\ fdTable[acceptor.at.fd] = acceptor.at.conn
        /\ \A h \in handlers : h.at.conn # acceptor.at.conn
    BY <1>1 DEF AcceptorHolds
  <1>3. CASE Admits
    <2> DEFINE new == [fd |-> acceptor.at.fd, conn |-> acceptor.at.conn]
    <2>1. /\ \E i : slots' = [slots EXCEPT ![i] = new]
          /\ acceptor' = [acceptor EXCEPT !.pc = "dispatching"]
          /\ UNCHANGED <<fdTable, misclosed>>
      BY <1>3 DEF Register
    <2>2. new.conn \in arrived
      BY <1>2
    <2>3. SlotsArrived'
      <3>1. new \in SlotType
        BY <1>2 DEF SlotType
      <3> HIDE DEF new
      <3> QED BY <1>1, <2>1, <3>1 DEF SlotsArrived, SlotType
    <2>4. IpcTypeOK'
      BY <1>1, <2>1 DEF IpcTypeOK
    <2>5. AcceptorHolds'
      BY <1>1, <1>2, <2>1 DEF AcceptorHolds
    <2>6. HandlersHold' /\ HandlersDistinct' /\ HandlersCounted' /\ ~misclosed'
      BY <1>1, <2>1 DEF HandlersHold, HandlersDistinct, HandlersCounted
    <2> QED BY <2>3, <2>4, <2>5, <2>6
  <1>4. CASE ~Admits
    <2>1. /\ fdTable' = [fdTable EXCEPT ![acceptor.at.fd] = Free]
          /\ misclosed' = (misclosed \/ fdTable[acceptor.at.fd] # acceptor.at.conn)
          /\ acceptor' = Acceptor("accepting") /\ slots' = slots
      BY <1>4 DEF Register, CloseFd
    <2>2. ~misclosed'
      BY <1>2, <2>1
    <2>3. fdTable \in [Fds -> Conns \cup {Free, Other}]
      BY DEF IpcTypeOK
    <2>4. HandlersHold'
      BY <1>1, <1>2, <2>1, <2>3 DEF HandlersHold, HandlerType
    <2>5. acceptor'.pc = "accepting"
      BY <2>1 DEF Acceptor
    <2>6. IpcTypeOK' /\ AcceptorHolds'
      BY <1>1, <2>1, <2>3, <2>5 DEF IpcTypeOK, AcceptorHolds, AcceptorHolding
    <2>7. HandlersDistinct' /\ HandlersCounted' /\ SlotsArrived'
      BY <1>1, <2>1 DEF HandlersDistinct, HandlersCounted, SlotsArrived, SlotType
    <2> QED BY <2>2, <2>4, <2>6, <2>7
  <1> QED BY <1>3, <1>4

\* Dispatching hands the connection from the accept loop to its handler, and counts it.
LEMMA DispatchHolds ==
    ASSUME HoldInv, Dispatch
    PROVE  HoldInv'
  <1> USE DEF HoldInv
  <1> DEFINE new == [at |-> acceptor.at, pc |-> "reading"]
  <1>1. /\ AcceptorHolding
        /\ \E slow \in {{}, {acceptor.at.conn}} : shut' = shut \cup slow
        /\ active' = active + 1 /\ handlers' = handlers \cup {new}
        /\ acceptor' = Acceptor("accepting")
        /\ UNCHANGED <<session, fdTable, slots, arrived, closer, misclosed>>
    BY DEF Dispatch, AcceptorHolding
  <1>2. /\ acceptor.at \in [conn : arrived, fd : Fds]
        /\ fdTable[acceptor.at.fd] = acceptor.at.conn
        /\ \A h \in handlers : h.at.conn # acceptor.at.conn
    BY <1>1 DEF AcceptorHolds
  <1>3. /\ new \in HandlerType /\ new.at.conn \in arrived
        /\ fdTable[new.at.fd] = new.at.conn
        /\ \A h \in handlers : h.at.conn # new.at.conn
    BY <1>2 DEF IpcTypeOK, HandlerType, HandlerPlaces
  <1>4. acceptor'.pc = "accepting"
    BY <1>1 DEF Acceptor
  <1> HIDE DEF new
  <1>5. HandlersHold' /\ HandlersDistinct'
    BY <1>1, <1>3 DEF HandlersHold, HandlersDistinct
  <1>6. HandlersCounted'
    <2>1. new \notin handlers
      BY <1>3
    <2> QED BY <1>1, <2>1, FS_AddElement DEF HandlersCounted
  <1>7. IpcTypeOK' /\ AcceptorHolds'
    BY <1>1, <1>2, <1>4 DEF IpcTypeOK, AcceptorHolds, AcceptorHolding
  <1>8. SlotsArrived' /\ ~misclosed'
    BY <1>1 DEF SlotsArrived, SlotType
  <1> QED BY <1>5, <1>6, <1>7, <1>8

(***************************************************************************)
(* The handlers.                                                            *)
(***************************************************************************)
\* A handler that goes on to its next place, and closes at most its own number on the way.
LEMMA MovedHolds ==
    ASSUME HoldInv, NEW h \in handlers, NEW pc \in HandlerPlaces, Moved(h, pc),
           pc # "leaving" => h.pc # "leaving" /\ fdTable' = fdTable,
           \/ fdTable' = fdTable
           \/ h.pc # "leaving" /\ fdTable' = [fdTable EXCEPT ![h.at.fd] = Free],
           slots' \in [1 .. Capacity -> SlotType], ~misclosed',
           UNCHANGED <<session, acceptor, active, shut, arrived, closer>>
    PROVE  HoldInv'
  <1> USE DEF HoldInv
  <1> DEFINE new == [h EXCEPT !.pc = pc]
  <1>1. /\ \A g \in handlers : /\ g \in HandlerType
                               /\ g.at.conn \in arrived
                               /\ g.pc # "leaving" => fdTable[g.at.fd] = g.at.conn
        /\ \A f, g \in handlers : f.at.conn = g.at.conn => f = g
    BY DEF HandlersHold, HandlersDistinct
  <1>2. /\ new \in HandlerType /\ new.at = h.at /\ new.pc = pc
        /\ h.at \in [conn : Conns, fd : Fds]
    BY <1>1 DEF HandlerType
  <1>3. handlers' = (handlers \ {h}) \cup {new}
    BY DEF Moved
  <1> HIDE DEF new
  <1>4. fdTable \in [Fds -> Conns \cup {Free, Other}] /\ arrived \subseteq Conns
    BY DEF IpcTypeOK
  <1>5. \A g \in handlers \ {h} : g.at.conn # new.at.conn
    BY <1>1, <1>2
  <1>6. HandlersDistinct'
    BY <1>1, <1>3, <1>5 DEF HandlersDistinct
  <1>7. \A g \in handlers \ {h} : g.pc # "leaving" => fdTable'[g.at.fd] = g.at.conn
    <2> SUFFICES ASSUME NEW g \in handlers, g # h, g.pc # "leaving"
                 PROVE  fdTable'[g.at.fd] = g.at.conn
      OBVIOUS
    <2>1. fdTable[g.at.fd] = g.at.conn /\ g.at.fd \in Fds /\ g.at.conn # h.at.conn
      BY <1>1 DEF HandlerType
    <2>2. h.pc # "leaving" => g.at.fd # h.at.fd
      BY <1>1, <2>1
    <2> QED BY <1>4, <2>1, <2>2
  <1>8. new.pc # "leaving" => fdTable'[new.at.fd] = new.at.conn
    BY <1>1, <1>2
  <1>9. HandlersHold'
    BY <1>1, <1>2, <1>3, <1>7, <1>8 DEF HandlersHold
  <1>10. HandlersCounted'
    <2>1. new \notin handlers \ {h}
      BY <1>5
    <2>2. IsFiniteSet(handlers \ {h}) /\ Cardinality(handlers \ {h}) = Cardinality(handlers) - 1
      BY FS_RemoveElement DEF HandlersCounted
    <2>3. /\ IsFiniteSet(handlers')
          /\ Cardinality(handlers') = Cardinality(handlers \ {h}) + 1
      BY <1>3, <2>1, <2>2, FS_AddElement
    <2>4. Cardinality(handlers) \in Nat
      BY FS_CardinalityType DEF HandlersCounted
    <2> QED BY <2>2, <2>3, <2>4 DEF HandlersCounted
  <1>11. AcceptorHolds'
    <2> SUFFICES ASSUME AcceptorHolding
                 PROVE  /\ acceptor.at \in [conn : arrived, fd : Fds]
                        /\ fdTable'[acceptor.at.fd] = acceptor.at.conn
                        /\ \A g \in handlers' : g.at.conn # acceptor.at.conn
      BY DEF AcceptorHolds, AcceptorHolding
    <2>1. /\ acceptor.at \in [conn : arrived, fd : Fds]
          /\ fdTable[acceptor.at.fd] = acceptor.at.conn
          /\ \A g \in handlers : g.at.conn # acceptor.at.conn
      BY DEF AcceptorHolds
    <2>2. h.pc # "leaving" => acceptor.at.fd # h.at.fd
      BY <1>1, <2>1
    <2>3. acceptor.at.fd \in Fds
      BY <2>1
    <2> QED BY <1>2, <1>3, <1>4, <2>1, <2>2, <2>3
  <1>12. SlotsArrived'
    BY DEF SlotsArrived, SlotType
  <1>13. IpcTypeOK'
    BY <1>4 DEF IpcTypeOK
  <1> QED BY <1>6, <1>9, <1>10, <1>11, <1>12, <1>13

\* Each step of a handler keeps the holdings: only the handler that took its connection out
\* of the table closes the number, and it still names that connection.
LEMMA HandlerHolds ==
    ASSUME HoldInv, NEW h \in handlers, Handler(h)
    PROVE  HoldInv'
  <1> USE DEF HoldInv
  <1>1. CASE HandlerLeaves(h)
    <2>1. /\ Moved(h, "removing") /\ h.pc = "reading"
          /\ UNCHANGED <<session, fdTable, slots, acceptor, active, shut, arrived, closer, misclosed>>
      BY <1>1 DEF HandlerLeaves
    <2> QED BY <2>1, MovedHolds DEF HandlerPlaces, SlotsArrived
  <1>2. CASE Remove(h)
    <2> DEFINE pc == IF WasRegistered(h) THEN "closing" ELSE "leaving"
    <2>1. /\ Moved(h, pc) /\ h.pc = "removing"
          /\ slots' = [i \in 1 .. Capacity |->
                          IF slots[i] = [fd |-> h.at.fd, conn |-> h.at.conn]
                          THEN EmptySlot ELSE slots[i]]
          /\ UNCHANGED <<session, fdTable, acceptor, active, shut, arrived, closer, misclosed>>
      BY <1>2 DEF Remove
    <2>2. pc \in HandlerPlaces
      BY DEF HandlerPlaces
    <2>3. slots' \in [1 .. Capacity -> SlotType]
      BY <2>1 DEF SlotsArrived, SlotType, EmptySlot
    <2> HIDE DEF pc
    <2> QED BY <2>1, <2>2, <2>3, MovedHolds
  <1>3. CASE HandlerCloses(h)
    <2>1. /\ Moved(h, "leaving") /\ h.pc = "closing"
          /\ fdTable' = [fdTable EXCEPT ![h.at.fd] = Free]
          /\ misclosed' = (misclosed \/ fdTable[h.at.fd] # h.at.conn)
          /\ UNCHANGED <<session, slots, acceptor, active, shut, arrived, closer>>
      BY <1>3 DEF HandlerCloses, CloseFd
    <2>2. fdTable[h.at.fd] = h.at.conn
      BY <2>1 DEF HandlersHold
    <2>3. ~misclosed'
      BY <2>1, <2>2
    <2> QED BY <2>1, <2>3, MovedHolds DEF HandlerPlaces, SlotsArrived
  <1>4. CASE HandlerEnds(h)
    <2>1. /\ handlers' = handlers \ {h} /\ active' = active - 1
          /\ UNCHANGED <<session, fdTable, slots, acceptor, shut, arrived, closer, misclosed>>
      BY <1>4 DEF HandlerEnds
    <2>2. /\ IsFiniteSet(handlers') /\ active' = Cardinality(handlers')
      BY <2>1, FS_RemoveElement DEF HandlersCounted
    <2>3. active' \in Nat
      BY <2>2, FS_CardinalityType
    <2>4. IpcTypeOK' /\ HandlersCounted'
      BY <2>1, <2>2, <2>3 DEF IpcTypeOK, HandlersCounted
    <2>5. AcceptorHolds' /\ HandlersHold' /\ HandlersDistinct' /\ SlotsArrived' /\ ~misclosed'
      BY <2>1 DEF AcceptorHolds, AcceptorHolding, HandlersHold, HandlersDistinct, SlotsArrived, SlotType
    <2> QED BY <2>4, <2>5
  <1> QED BY <1>1, <1>2, <1>3, <1>4 DEF Handler

(***************************************************************************)
(* Peers, the rest of the process, and close().                             *)
(***************************************************************************)
\* Another file takes a free number, which nobody holds.
LEMMA OtherHolds ==
    ASSUME HoldInv, NEW f \in Fds, OtherOpens(f)
    PROVE  HoldInv'
  <1> USE DEF HoldInv
  <1>1. /\ fdTable[f] = Free /\ fdTable' = [fdTable EXCEPT ![f] = Other]
        /\ UNCHANGED <<session, slots, acceptor, handlers, active, shut, arrived, closer, misclosed>>
    BY DEF OtherOpens
  <1>2. fdTable \in [Fds -> Conns \cup {Free, Other}] /\ arrived \subseteq Conns
    BY DEF IpcTypeOK
  <1>3. \A g \in Fds, c \in Conns : fdTable[g] = c => fdTable'[g] = c
    BY <1>1, <1>2, IpcNames
  <1>4. HandlersHold'
    BY <1>1, <1>3 DEF HandlersHold, HandlerType
  <1>5. AcceptorHolds'
    BY <1>1, <1>2, <1>3 DEF AcceptorHolds, AcceptorHolding
  <1>6. IpcTypeOK' /\ HandlersDistinct' /\ HandlersCounted' /\ SlotsArrived' /\ ~misclosed'
    BY <1>1, <1>2 DEF IpcTypeOK, HandlersDistinct, HandlersCounted, SlotsArrived, SlotType
  <1> QED BY <1>4, <1>5, <1>6

\* close() moves no descriptor: it shuts the registered connections down and waits.
LEMMA CloseHolds ==
    ASSUME HoldInv, NEW readerGone,
           CloseBegins \/ StopServer \/ WaitForQueues(readerGone) \/ CloseUSB
             \/ CloseTimesOut(readerGone)
    PROVE  HoldInv'
  <1>1. UNCHANGED <<fdTable, slots, acceptor, handlers, active, arrived, misclosed>>
    BY DEF CloseBegins, StopServer, WaitForQueues, CloseUSB, CloseTimesOut
  <1>2. shut' \subseteq arrived
    BY RegisteredArrived
       DEF HoldInv, IpcTypeOK, CloseBegins, StopServer, WaitForQueues, CloseUSB, CloseTimesOut
  <1>3. /\ session' \in [running : BOOLEAN, open : BOOLEAN, unsafe : BOOLEAN, opens : 0 .. MaxOpens]
        /\ closer' \in {"none", "ipc", "queues", "handlers"}
    BY DEF HoldInv, IpcTypeOK, CloseBegins, StopServer, WaitForQueues, CloseUSB, CloseTimesOut
  <1> QED BY <1>1, <1>2, <1>3, SameHolders

\* Every step of the engine keeps the holdings.
LEMMA NextHolds == HoldInv /\ [PlaneNext]_planeVars => HoldInv'
  <1> SUFFICES ASSUME HoldInv, [PlaneNext]_planeVars PROVE HoldInv'
    OBVIOUS
  <1>s. ASSUME UNCHANGED ipcVars PROVE HoldInv'
    BY <1>s, SameHolders DEF ipcVars, HoldInv, IpcTypeOK
  <1>1. CASE OpenUSB
    <2>1. /\ session' = [session EXCEPT !.running = TRUE, !.open = TRUE, !.opens = @ + 1]
          /\ session.opens < MaxOpens /\ StartServer
          /\ UNCHANGED <<fdTable, slots, handlers, active, shut, arrived, closer, misclosed>>
      BY <1>1 DEF OpenUSB
    <2>2. acceptor' = acceptor \/ acceptor'.pc = "accepting"
      BY <2>1 DEF StartServer, Acceptor
    <2>3. session' \in [running : BOOLEAN, open : BOOLEAN, unsafe : BOOLEAN, opens : 0 .. MaxOpens]
      <3>1. MaxOpens \in Nat /\ session.opens \in 0 .. MaxOpens
        BY IpcConstants DEF HoldInv, IpcTypeOK
      <3>2. session.opens + 1 \in 0 .. MaxOpens
        BY <2>1, <3>1
      <3> QED BY <2>1, <3>2 DEF HoldInv, IpcTypeOK
    <2> QED BY <2>1, <2>2, <2>3, SameHolders DEF HoldInv, IpcTypeOK
  <1>2. CASE ServerSteps
    <2>1. CASE AcceptLoop
      <3>1. ASSUME AcceptEnds PROVE HoldInv'
        BY <3>1, SameHolders DEF AcceptEnds, Acceptor, HoldInv, IpcTypeOK
      <3> QED BY <2>1, <3>1, AcceptHolds, RegisterHolds, DispatchHolds DEF AcceptLoop
    <2>2. CASE HandlerSteps
      BY <2>2, HandlerHolds DEF HandlerSteps
    <2>3. CASE Outside
      <3>1. ASSUME NEW c \in Conns, PeerEnds(c) PROVE HoldInv'
        <4>1. shut' \subseteq arrived
          BY <3>1, RegisteredArrived DEF PeerEnds, HoldInv, IpcTypeOK
        <4> QED BY <3>1, <4>1, SameHolders DEF PeerEnds, HoldInv, IpcTypeOK
      <3> QED BY <2>3, <3>1, OtherHolds DEF Outside
    <2>4. CASE CloseSteps
      BY <2>4, CloseHolds DEF CloseSteps
    <2> QED BY <1>2, <2>1, <2>2, <2>3, <2>4 DEF ServerSteps
  <1>3. CASE CommandSteps
    BY <1>3, <1>s DEF CommandSteps, Claim, SendOk, SendFails, ReplyTaken, ReplyTimesOut
  <1>4. CASE ReaderSteps
    <2>1. CASE ReadDeadline
      <3>1. /\ session' = [session EXCEPT !.running = FALSE]
            /\ UNCHANGED <<listening, fdTable, slots, acceptor, handlers, active, shut, arrived,
                           closer, misclosed>>
        BY <2>1 DEF ReadDeadline
      <3>2. session' \in [running : BOOLEAN, open : BOOLEAN, unsafe : BOOLEAN, opens : 0 .. MaxOpens]
        BY <3>1 DEF HoldInv, IpcTypeOK
      <3> QED BY <3>1, <3>2, SameHolders DEF HoldInv, IpcTypeOK
    <2>2. CASE ReadReply \/ ReaderEnds
      BY <2>2, <1>s DEF ReadReply, ReaderEnds
    <2> QED BY <1>4, <2>1, <2>2 DEF ReaderSteps
  <1>5. CASE DeviceTakes
    BY <1>5, <1>s DEF DeviceTakes
  <1>6. CASE WriterSteps
    BY <1>6, <1>s DEF WriterSteps, StoreControl, CopyControl, SendControl
  <1>7. CASE UNCHANGED planeVars
    BY <1>7, <1>s DEF planeVars
  <1> QED BY <1>1, <1>2, <1>3, <1>4, <1>5, <1>6, <1>7 DEF PlaneNext

(***************************************************************************)
(* The types of the control channel.                                        *)
(***************************************************************************)
CommandMsgs == [code : Codes, id : Nat]
WriteMsgs == [code : {"write"}, id : States]

ControlTyped ==
    /\ caller \in [pc : {"idle", "sending", "waiting"}, code : Codes \cup {Nothing}, id : Nat]
    /\ caller.pc # "idle" => caller.code \in Codes
    /\ chan \in [invalid : BOOLEAN,
                 pending : [code : Codes \cup {Nothing}, id : Nat, reply : Nat]]
    /\ reader \in {"gone", "reading"}
    /\ control \in [host : States, device : States]
    /\ \A w \in writers : w.copy \in States \cup {Nothing}
    /\ toDevice \in Seq(CommandMsgs \cup WriteMsgs)
    /\ fromDevice \in Seq(CommandMsgs)
    /\ sent \in [commands : Nat, writes : Nat]
    /\ answers \subseteq BOOLEAN

(***************************************************************************)
(* Who is left when the engine is closed.  A write in progress belongs to a *)
(* handler that is still counted, and close waits for the reader and the    *)
(* accept loop before it looks at the count; nobody comes after that.       *)
(***************************************************************************)
WritersAreHandlers == \A w \in writers : \E h \in handlers : h.at = w.at
LastWaitIsForHandlers == closer = "handlers" => reader = "gone" /\ acceptor.pc = "gone"
QuietWhenClosed ==
    ~session.open => handlers = {} /\ writers = {} /\ reader = "gone" /\ acceptor.pc = "gone"
QuietInv ==
    /\ WritersAreHandlers
    /\ LastWaitIsForHandlers
    /\ QuietWhenClosed

(***************************************************************************)
(* Whose reply is on its way.  While the channel is valid at most one       *)
(* command is between sendCommand and the reader, on one pipe or in         *)
(* _pendingReply, and it is the one that the caller waits for.              *)
(***************************************************************************)
Outstanding(m) ==
    caller.pc = "waiting" /\ m.id = caller.id /\ chan.pending.reply = Nothing
PendingIsCallers ==
    IF caller.pc = "idle" \/ chan.invalid
    THEN chan.pending = NoPending
    ELSE /\ chan.pending.code = caller.code
         /\ chan.pending.reply \in {Nothing, caller.id}
         /\ caller.pc = "sending" => chan.pending.reply = Nothing
CommandsAreCallers ==
    ~chan.invalid =>
        \A i \in 1 .. Len(toDevice) :
            toDevice[i].code \in Codes =>
                /\ Outstanding(toDevice[i])
                /\ fromDevice = <<>>
                /\ \A j \in 1 .. Len(toDevice) : toDevice[j].code \in Codes => j = i
RepliesAreCallers ==
    ~chan.invalid /\ fromDevice # <<>> =>
        Len(fromDevice) = 1 /\ Outstanding(fromDevice[1])
ReplyInv ==
    /\ PendingIsCallers
    /\ CommandsAreCallers
    /\ RepliesAreCallers
    /\ ReplyAnswersItsCommand

(***************************************************************************)
(* Sequences of messages.                                                   *)
(***************************************************************************)
\* A message that is sent comes last.
LEMMA Appended ==
    ASSUME NEW S, NEW q \in Seq(S), NEW m \in S
    PROVE  /\ Append(q, m) \in Seq(S)
           /\ Len(Append(q, m)) = Len(q) + 1
           /\ \A i \in 1 .. Len(q) : Append(q, m)[i] = q[i]
           /\ Append(q, m)[Len(q) + 1] = m
  BY AppendProperties

\* The pipe to the device takes commands and writes.
LEMMA ToDeviceType ==
    ASSUME toDevice \in Seq(CommandMsgs \cup WriteMsgs), NEW m \in CommandMsgs \cup WriteMsgs
    PROVE  Append(toDevice, m) \in Seq(CommandMsgs \cup WriteMsgs)
  BY Appended

\* What remains when the first message is taken.
LEMMA Taken ==
    ASSUME NEW S, NEW q \in Seq(S), q # <<>>
    PROVE  /\ Len(q) \in Nat \ {0}
           /\ Head(q) \in S /\ Head(q) = q[1]
           /\ Tail(q) \in Seq(S)
           /\ Len(Tail(q)) = Len(q) - 1
           /\ \A i \in 1 .. Len(q) - 1 : Tail(q)[i] = q[i + 1]
  BY HeadTailProperties

\* A pipe with no reply or one.
LEMMA OneReply ==
    ASSUME NEW S, NEW m \in S
    PROVE  /\ <<m>> \in Seq(S) /\ Len(<<m>>) = 1 /\ <<m>>[1] = m
           /\ <<>> \in Seq(S)
           /\ \A q \in Seq(S) : q \o <<m>> \in Seq(S) /\ q \o <<>> = q
           /\ <<>> \o <<m>> = <<m>>
  OBVIOUS

(***************************************************************************)
(* The types.                                                               *)
(***************************************************************************)
\* The command that sendCommand transmits.
LEMMA MessageType ==
    ASSUME ControlTyped, caller.pc # "idle"
    PROVE  Message \in CommandMsgs /\ Message.code = caller.code /\ Message.id = caller.id
  BY DEF ControlTyped, Message, CommandMsgs

\* Steps of sendCommand keep the types.
LEMMA CommandTypes ==
    ASSUME ControlTyped, CommandSteps
    PROVE  ControlTyped'
  <1> USE DEF ControlTyped
  <1>0. NoPending \in [code : Codes \cup {Nothing}, id : Nat, reply : Nat]
        /\ IdleCaller \in [pc : {"idle", "sending", "waiting"}, code : Codes \cup {Nothing}, id : Nat]
        /\ IdleCaller.pc = "idle"
    BY DEF NoPending, IdleCaller, Nothing
  <1>1. ASSUME NEW code \in Codes, Claim(code) PROVE ControlTyped'
    <2> DEFINE claimed == [code |-> code, id |-> sent.commands + 1, reply |-> Nothing]
               calling == [pc |-> "sending", code |-> code, id |-> sent.commands + 1]
    <2>1. /\ sent' = [sent EXCEPT !.commands = @ + 1]
          /\ caller' = calling
          /\ chan' = [chan EXCEPT !.pending = claimed]
          /\ UNCHANGED <<reader, control, writers, toDevice, fromDevice, answers>>
      BY <1>1 DEF Claim
    <2>2. /\ claimed \in [code : Codes \cup {Nothing}, id : Nat, reply : Nat]
          /\ calling \in [pc : {"idle", "sending", "waiting"}, code : Codes \cup {Nothing}, id : Nat]
          /\ calling.code \in Codes
      BY DEF Nothing
    <2> HIDE DEF claimed, calling
    <2>3. caller' \in [pc : {"idle", "sending", "waiting"}, code : Codes \cup {Nothing}, id : Nat]
          /\ caller'.code \in Codes
      BY <2>1, <2>2
    <2>4. chan' \in [invalid : BOOLEAN,
                    pending : [code : Codes \cup {Nothing}, id : Nat, reply : Nat]]
      BY <2>1, <2>2
    <2>5. sent' \in [commands : Nat, writes : Nat]
      <3>1. sent \in [commands : Nat, writes : Nat]
        OBVIOUS
      <3> HIDE DEF ControlTyped
      <3> QED BY <2>1, <3>1
    <2> QED BY <2>1, <2>3, <2>4, <2>5
  <1>2. CASE SendOk
    <2>1. caller.pc = "sending" /\ caller' = [caller EXCEPT !.pc = "waiting"]
          /\ toDevice' = Append(toDevice, Message)
          /\ UNCHANGED <<chan, reader, control, writers, fromDevice, sent, answers>>
      BY <1>2 DEF SendOk
    <2>2. toDevice' \in Seq(CommandMsgs \cup WriteMsgs)
      <3>1. Message \in CommandMsgs \cup WriteMsgs
        BY <2>1, MessageType
      <3>2. Append(toDevice, Message) \in Seq(CommandMsgs \cup WriteMsgs)
        BY <3>1, ToDeviceType
      <3> QED BY <2>1, <3>2
    <2> QED BY <2>1, <2>2
  <1>3. CASE SendFails
    <2>1. /\ caller.pc = "sending" /\ caller' = IdleCaller
          /\ toDevice' = toDevice \/ toDevice' = Append(toDevice, Message)
          /\ chan' = chan \/ chan' = [chan EXCEPT !.pending = NoPending]
          /\ UNCHANGED <<reader, control, writers, fromDevice, sent, answers>>
      BY <1>3 DEF SendFails
    <2>2. toDevice' \in Seq(CommandMsgs \cup WriteMsgs)
      <3>1. Message \in CommandMsgs \cup WriteMsgs
        BY <2>1, MessageType
      <3>2. Append(toDevice, Message) \in Seq(CommandMsgs \cup WriteMsgs)
        BY <3>1, ToDeviceType
      <3> QED BY <2>1, <3>2
    <2> QED BY <1>0, <2>1, <2>2
  <1>4. CASE ReplyTaken
    <2>1. /\ answers' = answers \cup {chan.pending.reply = caller.id}
          /\ chan' = [chan EXCEPT !.pending = NoPending] /\ caller' = IdleCaller
          /\ UNCHANGED <<reader, control, writers, toDevice, fromDevice, sent>>
      BY <1>4 DEF ReplyTaken
    <2> QED BY <1>0, <2>1
  <1>5. CASE ReplyTimesOut
    <2>1. /\ chan' = RetiredChannel /\ caller' = IdleCaller
          /\ UNCHANGED <<reader, control, writers, toDevice, fromDevice, sent, answers>>
      BY <1>5 DEF ReplyTimesOut
    <2> QED BY <1>0, <2>1 DEF RetiredChannel
  <1> QED BY <1>1, <1>2, <1>3, <1>4, <1>5 DEF CommandSteps

\* Every step keeps the types.
LEMMA NextTyped == ControlTyped /\ [PlaneNext]_planeVars => ControlTyped'
  <1> SUFFICES ASSUME ControlTyped, [PlaneNext]_planeVars PROVE ControlTyped'
    OBVIOUS
  <1> USE DEF ControlTyped
  <1>0. NoPending \in [code : Codes \cup {Nothing}, id : Nat, reply : Nat]
        /\ \A S : <<>> \in Seq(S)
    BY DEF NoPending, Nothing
  <1>1. CASE OpenUSB
    BY <1>0, <1>1, ControlConstants DEF OpenUSB
  <1>2. CASE ServerSteps \/ UNCHANGED planeVars
    BY <1>2 DEF ServerSteps, controlVars, planeVars
  <1>3. CASE CommandSteps
    BY <1>3, CommandTypes
  <1>4. CASE ReaderSteps
    <2>1. CASE ReadReply
      <3>1. Head(fromDevice) \in CommandMsgs /\ Tail(fromDevice) \in Seq(CommandMsgs)
        BY <2>1, Taken DEF ReadReply
      <3>2. /\ \/ chan' = chan
               \/ chan' = [chan EXCEPT !.pending.reply = Head(fromDevice).id]
            /\ fromDevice' = Tail(fromDevice)
            /\ UNCHANGED <<caller, reader, control, writers, toDevice, sent, answers>>
        BY <2>1 DEF ReadReply
      <3>3. Head(fromDevice).id \in Nat
        BY <3>1 DEF CommandMsgs
      <3>4. chan' \in [invalid : BOOLEAN,
                      pending : [code : Codes \cup {Nothing}, id : Nat, reply : Nat]]
        BY <3>2, <3>3
      <3> QED BY <3>1, <3>2, <3>4
    <2>2. CASE ReadDeadline
      BY <1>0, <2>2 DEF ReadDeadline, RetiredChannel
    <2>3. CASE ReaderEnds
      BY <2>3 DEF ReaderEnds
    <2> QED BY <1>4, <2>1, <2>2, <2>3 DEF ReaderSteps
  <1>5. CASE DeviceTakes
    <2> DEFINE m == Head(toDevice)
    <2>1. m \in CommandMsgs \cup WriteMsgs /\ Tail(toDevice) \in Seq(CommandMsgs \cup WriteMsgs)
      BY <1>5, Taken DEF DeviceTakes
    <2>2. /\ toDevice' = Tail(toDevice)
          /\ UNCHANGED <<chan, caller, reader, writers, sent, answers>>
      BY <1>5 DEF DeviceTakes
    <2>3. CASE m.code \in Codes
      <3>1. m \in CommandMsgs
        BY <2>1, <2>3, CodeNames DEF WriteMsgs
      <3>2. control' = control /\ \E reply \in {<<>>, <<m>>} : fromDevice' = fromDevice \o reply
        BY <1>5, <2>3 DEF DeviceTakes
      <3>3. PICK reply \in {<<>>, <<m>>} : fromDevice' = fromDevice \o reply
        BY <3>2
      <3>4. reply \in Seq(CommandMsgs)
        <4>1. <<>> \in Seq(CommandMsgs) /\ <<m>> \in Seq(CommandMsgs)
          BY <3>1
        <4> QED BY <3>3, <4>1
      <3>5. fromDevice' \in Seq(CommandMsgs)
        BY <3>3, <3>4, ConcatProperties
      <3> QED BY <2>1, <2>2, <3>2, <3>5
    <2>4. CASE m.code \notin Codes
      <3>1. m.id \in States
        BY <2>1, <2>4 DEF CommandMsgs, WriteMsgs
      <3>2. control' = [control EXCEPT !.device = m.id] /\ fromDevice' = fromDevice
        BY <1>5, <2>4 DEF DeviceTakes
      <3> QED BY <2>1, <2>2, <3>1, <3>2
    <2> QED BY <2>3, <2>4
  <1>6. ASSUME NEW h \in handlers, StoreControl(h) PROVE ControlTyped'
    BY <1>6 DEF StoreControl
  <1>7. ASSUME NEW w \in writers, CopyControl(w) PROVE ControlTyped'
    <2> DEFINE new == [w EXCEPT !.copy = control.host]
    <2>1. /\ writers' = (writers \ {w}) \cup {new}
          /\ UNCHANGED <<chan, caller, reader, control, toDevice, fromDevice, sent, answers>>
      BY <1>7 DEF CopyControl
    <2>2. new.copy \in States \cup {Nothing}
      OBVIOUS
    <2> HIDE DEF new
    <2> QED BY <2>1, <2>2
  <1>8. ASSUME NEW w \in writers, SendControl(w) PROVE ControlTyped'
    <2> DEFINE m == [code |-> "write", id |-> w.copy]
    <2>1. m \in WriteMsgs
      BY <1>8 DEF SendControl, WriteMsgs
    <2>2. /\ toDevice' = toDevice \/ toDevice' = Append(toDevice, m)
          /\ writers' = writers \ {w}
          /\ UNCHANGED <<chan, caller, reader, control, fromDevice, sent, answers>>
      BY <1>8 DEF SendControl
    <2> HIDE DEF m
    <2>3. toDevice' \in Seq(CommandMsgs \cup WriteMsgs)
      <3>1. m \in CommandMsgs \cup WriteMsgs
        BY <2>1
      <3>2. Append(toDevice, m) \in Seq(CommandMsgs \cup WriteMsgs)
        BY <3>1, ToDeviceType
      <3> QED BY <2>2, <3>2
    <2> QED BY <2>2, <2>3
  <1> QED BY <1>1, <1>2, <1>3, <1>4, <1>5, <1>6, <1>7, <1>8 DEF PlaneNext, WriterSteps

(***************************************************************************)
(* The close.                                                               *)
(***************************************************************************)
\* A write goes on only in the handler it belongs to.
LEMMA NextWriters ==
    ASSUME HoldInv, QuietInv, PlaneNext
    PROVE  WritersAreHandlers'
  <1> USE DEF QuietInv
  <1>s. ASSUME handlers \subseteq handlers', writers' \subseteq writers PROVE WritersAreHandlers'
    BY <1>s DEF WritersAreHandlers
  <1>1. CASE OpenUSB \/ CommandSteps \/ ReaderSteps \/ DeviceTakes
    <2>1. handlers' = handlers /\ writers' = writers
      BY <1>1 DEF OpenUSB, CommandSteps, Claim, SendOk, SendFails, ReplyTaken, ReplyTimesOut,
                  ReaderSteps, ReadReply, ReadDeadline, ReaderEnds, DeviceTakes, ipcVars
    <2> QED BY <1>s, <2>1
  <1>2. CASE ServerSteps
    <2>1. writers' = writers
      BY <1>2 DEF ServerSteps, controlVars
    <2>2. CASE AcceptLoop \/ Outside \/ CloseSteps
      <3>1. handlers \subseteq handlers'
        BY <2>2 DEF AcceptLoop, Accept, AcceptEnds, Register, Dispatch, Outside, PeerEnds,
                    OtherOpens, CloseSteps, CloseBegins, StopServer, WaitForQueues, CloseUSB,
                    CloseTimesOut
      <3> QED BY <1>s, <2>1, <3>1
    <2>3. ASSUME NEW h \in handlers, ~Writing(h), Handler(h) PROVE WritersAreHandlers'
      <3>1. handlers \ {h} \subseteq handlers'
        BY <2>3 DEF Handler, HandlerLeaves, Remove, HandlerCloses, HandlerEnds, Moved
      <3>2. \A w \in writers : w.at # h.at
        BY <2>3 DEF Writing
      <3> QED BY <2>1, <3>1, <3>2 DEF WritersAreHandlers
    <2> QED BY <1>2, <2>2, <2>3 DEF ServerSteps, HandlerSteps
  <1>3. CASE WriterSteps
    <2>1. handlers' = handlers
      BY <1>3 DEF WriterSteps, StoreControl, CopyControl, SendControl, ipcVars
    <2>2. ASSUME NEW h \in handlers, StoreControl(h) PROVE WritersAreHandlers'
      BY <2>1, <2>2 DEF StoreControl, WritersAreHandlers
    <2>3. ASSUME NEW w \in writers, CopyControl(w) PROVE WritersAreHandlers'
      <3> DEFINE new == [w EXCEPT !.copy = control.host]
      <3>1. writers' = (writers \ {w}) \cup {new}
        BY <2>3 DEF CopyControl
      <3>2. PICK h \in handlers : h.at = w.at
        BY DEF WritersAreHandlers
      <3>3. w.at = new.at \/ new = w
        OBVIOUS
      <3> HIDE DEF new
      <3> QED BY <2>1, <3>1, <3>2, <3>3 DEF WritersAreHandlers
    <2>4. ASSUME NEW w \in writers, SendControl(w) PROVE WritersAreHandlers'
      BY <1>s, <2>1, <2>4 DEF SendControl
    <2> QED BY <1>3, <2>2, <2>3, <2>4 DEF WriterSteps
  <1> QED BY <1>1, <1>2, <1>3 DEF PlaneNext

\* close() looks at the count last, and when it is zero nobody is left or can come.
LEMMA NextQuiet == HoldInv /\ QuietInv /\ [PlaneNext]_planeVars => QuietInv'
  <1> SUFFICES ASSUME HoldInv, QuietInv, [PlaneNext]_planeVars PROVE QuietInv'
    OBVIOUS
  <1>0. WritersAreHandlers /\ LastWaitIsForHandlers /\ QuietWhenClosed
    BY DEF QuietInv
  <1>1. CASE UNCHANGED planeVars
    BY <1>1 DEF planeVars, ipcVars, controlVars, QuietInv, WritersAreHandlers, LastWaitIsForHandlers,
                QuietWhenClosed
  <1>2. CASE PlaneNext
    <2>1. WritersAreHandlers'
      BY <1>2, NextWriters
    <2>2. ASSUME session'.open = session.open, closer' = closer \/ closer' # "handlers",
                 reader' = reader \/ reader' = "gone",
                 acceptor' = acceptor \/ acceptor.pc # "gone",
                 handlers' = handlers \/ handlers # {} \/ acceptor.pc # "gone",
                 writers' = writers \/ handlers # {}
          PROVE  QuietInv'
      BY <1>0, <2>1, <2>2 DEF QuietInv, LastWaitIsForHandlers, QuietWhenClosed
    <2>3. CASE OpenUSB
      BY <2>1, <2>3 DEF OpenUSB, QuietInv, LastWaitIsForHandlers, QuietWhenClosed, HoldInv,
                        IpcTypeOK
    <2>4. CASE AcceptLoop /\ UNCHANGED controlVars
      BY <2>2, <2>4 DEF AcceptLoop, Accept, AcceptEnds, Register, Dispatch, controlVars
    <2>5. CASE HandlerSteps /\ UNCHANGED controlVars
      <3>1. handlers # {} /\ UNCHANGED <<session, closer, acceptor, reader, writers>>
        BY <2>5 DEF HandlerSteps, Handler, HandlerLeaves, Remove, HandlerCloses, HandlerEnds,
                    controlVars
      <3> QED BY <2>2, <3>1
    <2>6. CASE Outside /\ UNCHANGED controlVars
      BY <2>2, <2>6 DEF Outside, PeerEnds, OtherOpens, controlVars
    <2>7. CASE CloseSteps /\ UNCHANGED controlVars
      <3>1. CASE WaitForQueues(reader = "gone") \/ CloseUSB
        <4>1. UNCHANGED <<acceptor, handlers, active, reader, writers>>
          BY <2>7, <3>1 DEF WaitForQueues, CloseUSB, controlVars
        <4>2. reader = "gone" /\ acceptor.pc = "gone"
          BY <1>0, <3>1 DEF WaitForQueues, CloseUSB, QueuesRetired, LastWaitIsForHandlers
        <4>3. CASE CloseUSB
          <5>1. handlers = {}
            BY <4>3, FS_EmptySet DEF CloseUSB, HoldInv, HandlersCounted
          <5>2. writers = {}
            BY <1>0, <5>1 DEF WritersAreHandlers
          <5> QED BY <2>1, <4>1, <4>2, <4>3, <5>1, <5>2
                  DEF CloseUSB, QuietInv, LastWaitIsForHandlers, QuietWhenClosed
        <4>4. CASE WaitForQueues(reader = "gone")
          BY <1>0, <2>1, <4>1, <4>2, <4>4
             DEF WaitForQueues, QuietInv, LastWaitIsForHandlers, QuietWhenClosed
        <4> QED BY <3>1, <4>3, <4>4
      <3>2. CASE CloseBegins \/ StopServer \/ CloseTimesOut(reader = "gone")
        <4>1. /\ session'.open = session.open /\ closer' # "handlers"
              /\ UNCHANGED <<acceptor, handlers, reader, writers>>
          BY <2>7, <3>2 DEF CloseBegins, StopServer, CloseTimesOut, controlVars, HoldInv, IpcTypeOK
        <4> QED BY <2>2, <4>1
      <3> QED BY <2>7, <3>1, <3>2 DEF CloseSteps
    <2>8. CASE CommandSteps
      BY <2>2, <2>8 DEF CommandSteps, Claim, SendOk, SendFails, ReplyTaken, ReplyTimesOut, ipcVars
    <2>9. CASE ReaderSteps
      <3>1. /\ session'.open = session.open /\ (reader' = reader \/ reader' = "gone")
            /\ UNCHANGED <<closer, acceptor, handlers, writers>>
        BY <2>9 DEF ReaderSteps, ReadReply, ReadDeadline, ReaderEnds, ipcVars, HoldInv, IpcTypeOK
      <3> QED BY <2>2, <3>1
    <2>10. CASE DeviceTakes
      BY <2>2, <2>10 DEF DeviceTakes, ipcVars
    <2>11. CASE WriterSteps
      <3>1. /\ UNCHANGED <<session, closer, acceptor, handlers, reader>>
            /\ handlers # {} \/ writers # {}
        BY <2>11 DEF WriterSteps, StoreControl, CopyControl, SendControl, ipcVars
      <3>2. handlers # {}
        BY <1>0, <3>1 DEF WritersAreHandlers
      <3> QED BY <2>2, <3>1, <3>2
    <2> QED BY <1>2, <2>3, <2>4, <2>5, <2>6, <2>7, <2>8, <2>9, <2>10, <2>11
            DEF PlaneNext, ServerSteps
  <1> QED BY <1>1, <1>2

(***************************************************************************)
(* The replies.                                                             *)
(***************************************************************************)
NoneOnTheWay ==
    /\ \A i \in 1 .. Len(toDevice) : toDevice[i].code \notin Codes
    /\ fromDevice = <<>>

\* On a valid channel nothing is on its way unless its sender waits for the reply.
LEMMA NothingStale ==
    ASSUME ReplyInv, ControlTyped, ~chan.invalid,
           caller.pc # "waiting" \/ chan.pending.reply # Nothing
    PROVE  NoneOnTheWay
  <1>1. \A i \in 1 .. Len(toDevice) : toDevice[i].code \notin Codes
    BY DEF ReplyInv, CommandsAreCallers, Outstanding
  <1>2. fromDevice = <<>>
    BY DEF ReplyInv, RepliesAreCallers, Outstanding
  <1> QED BY <1>1, <1>2 DEF NoneOnTheWay

\* A step after which nothing is on its way, or the channel is retired.
LEMMA NoneLeft ==
    ASSUME NoneOnTheWay' \/ chan'.invalid
    PROVE  CommandsAreCallers' /\ RepliesAreCallers'
  BY DEF NoneOnTheWay, CommandsAreCallers, RepliesAreCallers

\* The steps of sendCommand.  A send that fails has put nothing on the pipe.
LEMMA CommandReplies ==
    ASSUME HalfSent = FALSE, ReplyInv, ControlTyped, CommandSteps
    PROVE  ReplyInv'
  <1>0. /\ PendingIsCallers /\ CommandsAreCallers /\ RepliesAreCallers /\ ReplyAnswersItsCommand
        /\ chan \in [invalid : BOOLEAN,
                     pending : [code : Codes \cup {Nothing}, id : Nat, reply : Nat]]
        /\ caller \in [pc : {"idle", "sending", "waiting"}, code : Codes \cup {Nothing}, id : Nat]
        /\ toDevice \in Seq(CommandMsgs \cup WriteMsgs)
    BY DEF ReplyInv, ControlTyped
  <1>1. ASSUME NEW code \in Codes, Claim(code) PROVE ReplyInv'
    <2>1. /\ caller.pc = "idle" /\ ~chan.invalid
          /\ UNCHANGED <<toDevice, fromDevice, answers>>
          /\ caller'.pc = "sending" /\ caller'.code = code
          /\ chan'.invalid = chan.invalid
          /\ chan'.pending = [code |-> code, id |-> sent.commands + 1, reply |-> Nothing]
      BY <1>0, <1>1 DEF Claim
    <2>2. PendingIsCallers'
      BY <2>1 DEF PendingIsCallers
    <2>3. NoneOnTheWay'
      BY <2>1, NothingStale DEF NoneOnTheWay
    <2> QED BY <1>0, <2>1, <2>2, <2>3, NoneLeft DEF ReplyInv, ReplyAnswersItsCommand
  <1>2. CASE SendOk
    <2>1. /\ caller.pc = "sending" /\ caller'.pc = "waiting"
          /\ caller'.code = caller.code /\ caller'.id = caller.id
          /\ toDevice' = Append(toDevice, Message)
          /\ UNCHANGED <<chan, fromDevice, answers>>
      BY <1>0, <1>2 DEF SendOk
    <2>2. PendingIsCallers'
      BY <1>0, <2>1 DEF PendingIsCallers
    <2>3. CASE chan.invalid
      BY <1>0, <2>1, <2>2, <2>3, NoneLeft DEF ReplyInv, ReplyAnswersItsCommand
    <2>4. CASE ~chan.invalid
      <3>1. NoneOnTheWay /\ chan.pending.reply = Nothing
        BY <1>0, <2>1, <2>4, NothingStale DEF PendingIsCallers
      <3>2. Message \in CommandMsgs \cup WriteMsgs /\ Message.id = caller.id
        BY <2>1, MessageType
      <3>3. /\ Len(toDevice') = Len(toDevice) + 1 /\ Len(toDevice) \in Nat
            /\ \A i \in 1 .. Len(toDevice) : toDevice'[i] = toDevice[i]
            /\ toDevice'[Len(toDevice) + 1] = Message
        BY <1>0, <2>1, <3>2, Appended
      <3>4. \A i \in 1 .. Len(toDevice') :
                toDevice'[i].code \in Codes => i = Len(toDevice) + 1 /\ toDevice'[i] = Message
        <4> TAKE i \in 1 .. Len(toDevice')
        <4> QED BY <3>1, <3>3 DEF NoneOnTheWay
      <3>5. CommandsAreCallers'
        BY <2>1, <3>1, <3>2, <3>4 DEF CommandsAreCallers, Outstanding, NoneOnTheWay
      <3>6. RepliesAreCallers'
        BY <2>1, <3>1 DEF RepliesAreCallers, NoneOnTheWay
      <3> QED BY <1>0, <2>1, <2>2, <3>5, <3>6 DEF ReplyInv, ReplyAnswersItsCommand
    <2> QED BY <2>3, <2>4
  <1>3. CASE SendFails
    <2>1. /\ caller.pc = "sending" /\ caller'.pc = "idle" /\ toDevice' = toDevice
          /\ caller.code \in Codes
          /\ UNCHANGED <<fromDevice, answers>>
          /\ chan' = IF chan.pending.code = caller.code
                     THEN [chan EXCEPT !.pending = NoPending] ELSE chan
      BY <1>3 DEF SendFails, IdleCaller, ControlTyped
    <2>2. chan'.pending = NoPending /\ chan'.invalid = chan.invalid
      BY <1>0, <2>1 DEF PendingIsCallers
    <2>3. PendingIsCallers'
      BY <2>1, <2>2 DEF PendingIsCallers
    <2>4. NoneOnTheWay' \/ chan'.invalid
      BY <2>1, <2>2, NothingStale DEF NoneOnTheWay
    <2> QED BY <1>0, <2>1, <2>3, <2>4, NoneLeft DEF ReplyInv, ReplyAnswersItsCommand
  <1>4. CASE ReplyTaken
    <2>1. /\ caller.pc = "waiting" /\ chan.pending.reply # Nothing
          /\ caller'.pc = "idle" /\ UNCHANGED <<toDevice, fromDevice>>
          /\ chan'.pending = NoPending /\ chan'.invalid = chan.invalid
          /\ answers' = answers \cup {chan.pending.reply = caller.id}
      BY <1>0, <1>4 DEF ReplyTaken, ReplyReady, IdleCaller
    <2>2. ~chan.invalid /\ chan.pending.reply = caller.id
      BY <1>0, <2>1 DEF PendingIsCallers, NoPending
    <2>3. PendingIsCallers'
      BY <2>1 DEF PendingIsCallers
    <2>4. NoneOnTheWay'
      BY <2>1, <2>2, NothingStale DEF NoneOnTheWay
    <2>5. ReplyAnswersItsCommand'
      <3>1. (chan.pending.reply = caller.id) = TRUE
        BY <2>2
      <3> QED BY <1>0, <2>1, <3>1 DEF ReplyAnswersItsCommand
    <2> QED BY <2>3, <2>4, <2>5, NoneLeft DEF ReplyInv
  <1>5. CASE ReplyTimesOut
    <2>1. /\ chan'.invalid /\ chan'.pending = NoPending /\ answers' = answers
      BY <1>5 DEF ReplyTimesOut, RetiredChannel
    <2> QED BY <1>0, <2>1, NoneLeft DEF ReplyInv, PendingIsCallers, ReplyAnswersItsCommand
  <1> QED BY <1>1, <1>2, <1>3, <1>4, <1>5 DEF CommandSteps

\* The device takes a command, and answers it or not; a write of the control state makes
\* the commands behind it move up.
LEMMA DeviceReplies ==
    ASSUME ReplyInv, ControlTyped, DeviceTakes
    PROVE  ReplyInv'
  <1> DEFINE m == Head(toDevice)
  <1>0. /\ PendingIsCallers /\ CommandsAreCallers /\ RepliesAreCallers /\ ReplyAnswersItsCommand
        /\ toDevice \in Seq(CommandMsgs \cup WriteMsgs) /\ toDevice # <<>>
        /\ toDevice' = Tail(toDevice)
        /\ UNCHANGED <<chan, caller, answers>>
    BY DEF ReplyInv, ControlTyped, DeviceTakes
  <1>1. /\ Len(toDevice) \in Nat \ {0} /\ m = toDevice[1]
        /\ m \in CommandMsgs \cup WriteMsgs
        /\ Len(toDevice') = Len(toDevice) - 1
        /\ \A i \in 1 .. Len(toDevice) - 1 : toDevice'[i] = toDevice[i + 1]
    BY <1>0, Taken
  <1>2. PendingIsCallers' /\ ReplyAnswersItsCommand'
    BY <1>0 DEF PendingIsCallers, ReplyAnswersItsCommand
  <1>3. CASE chan.invalid
    BY <1>0, <1>2, <1>3, NoneLeft DEF ReplyInv
  <1>4. CASE ~chan.invalid /\ m.code \in Codes
    <2>1. /\ Outstanding(m) /\ fromDevice = <<>>
          /\ \A j \in 1 .. Len(toDevice) : toDevice[j].code \in Codes => j = 1
      <3>1. 1 \in 1 .. Len(toDevice)
        BY <1>1
      <3> QED BY <1>0, <1>1, <1>4, <3>1 DEF CommandsAreCallers
    <2>2. \A i \in 1 .. Len(toDevice') : toDevice'[i].code \notin Codes
      <3> TAKE i \in 1 .. Len(toDevice')
      <3>1. toDevice'[i] = toDevice[i + 1] /\ i + 1 \in 1 .. Len(toDevice) /\ i + 1 # 1
        BY <1>1
      <3> QED BY <2>1, <3>1
    <2>3. PICK reply \in {<<>>, <<m>>} : fromDevice' = fromDevice \o reply
      BY <1>4 DEF DeviceTakes
    <2>4. fromDevice' = <<>> \/ fromDevice' = <<m>>
      BY <2>1, <2>3
    <2>5. CommandsAreCallers'
      BY <2>2 DEF CommandsAreCallers
    <2>6. RepliesAreCallers'
      <3>1. caller'.pc = "waiting" /\ m.id = caller'.id /\ chan'.pending.reply = Nothing
        BY <1>0, <2>1 DEF Outstanding
      <3>2. fromDevice' # <<>> => Len(fromDevice') = 1 /\ fromDevice'[1] = m
        BY <2>4
      <3> QED BY <3>1, <3>2 DEF RepliesAreCallers, Outstanding
    <2> QED BY <1>2, <2>5, <2>6 DEF ReplyInv
  <1>5. CASE ~chan.invalid /\ m.code \notin Codes
    <2>1. fromDevice' = fromDevice
      BY <1>5 DEF DeviceTakes
    <2>2. CommandsAreCallers'
      <3> SUFFICES ASSUME NEW i \in 1 .. Len(toDevice'), toDevice'[i].code \in Codes
                   PROVE  /\ caller'.pc = "waiting" /\ toDevice'[i].id = caller'.id
                          /\ chan'.pending.reply = Nothing
                          /\ fromDevice' = <<>>
                          /\ \A j \in 1 .. Len(toDevice') : toDevice'[j].code \in Codes => j = i
        BY DEF CommandsAreCallers, Outstanding
      <3>1. toDevice'[i] = toDevice[i + 1] /\ i + 1 \in 1 .. Len(toDevice)
        BY <1>1
      <3>2. /\ Outstanding(toDevice[i + 1]) /\ fromDevice = <<>>
            /\ \A j \in 1 .. Len(toDevice) : toDevice[j].code \in Codes => j = i + 1
        BY <1>0, <1>5, <3>1 DEF CommandsAreCallers
      <3>3. \A j \in 1 .. Len(toDevice') : toDevice'[j].code \in Codes => j = i
        <4> TAKE j \in 1 .. Len(toDevice')
        <4>1. toDevice'[j] = toDevice[j + 1] /\ j + 1 \in 1 .. Len(toDevice)
          BY <1>1
        <4> QED BY <3>2, <4>1
      <3> QED BY <1>0, <2>1, <3>1, <3>2, <3>3 DEF Outstanding
    <2>3. RepliesAreCallers'
      BY <1>0, <2>1 DEF RepliesAreCallers, Outstanding
    <2> QED BY <1>2, <2>2, <2>3 DEF ReplyInv
  <1> QED BY <1>3, <1>4, <1>5

\* The reader takes the one reply there is, which is the caller's, or retires the channel.
LEMMA ReaderReplies ==
    ASSUME ReplyInv, ControlTyped, ReaderSteps
    PROVE  ReplyInv'
  <1>0. /\ PendingIsCallers /\ CommandsAreCallers /\ RepliesAreCallers /\ ReplyAnswersItsCommand
        /\ chan \in [invalid : BOOLEAN,
                     pending : [code : Codes \cup {Nothing}, id : Nat, reply : Nat]]
        /\ toDevice \in Seq(CommandMsgs \cup WriteMsgs)
        /\ fromDevice \in Seq(CommandMsgs)
    BY DEF ReplyInv, ControlTyped
  <1>1. CASE ReadReply
    <2>1. /\ fromDevice # <<>> /\ fromDevice' = Tail(fromDevice)
          /\ chan' = IF Matches(Head(fromDevice))
                     THEN [chan EXCEPT !.pending.reply = Head(fromDevice).id] ELSE chan
          /\ UNCHANGED <<caller, toDevice, answers>>
      BY <1>1 DEF ReadReply
    <2>2. /\ Head(fromDevice) = fromDevice[1] /\ Head(fromDevice) \in CommandMsgs
          /\ Tail(fromDevice) \in Seq(CommandMsgs)
          /\ Len(Tail(fromDevice)) = Len(fromDevice) - 1
      BY <1>0, <2>1, Taken
    <2>3. CASE chan.invalid
      <3>1. ~Matches(Head(fromDevice))
        BY <1>0, <2>2, <2>3, CodeNames DEF PendingIsCallers, NoPending, Matches, CommandMsgs
      <3>2. chan' = chan
        BY <2>1, <3>1
      <3> QED BY <1>0, <2>1, <2>3, <3>2, NoneLeft
              DEF ReplyInv, PendingIsCallers, ReplyAnswersItsCommand
    <2>4. CASE ~chan.invalid
      <3>1. Len(fromDevice) = 1 /\ Outstanding(fromDevice[1])
        BY <1>0, <2>1, <2>4 DEF RepliesAreCallers
      <3>2. fromDevice' = <<>>
        BY <2>1, <2>2, <3>1, EmptySeq
      <3>3. NoneOnTheWay'
        BY <1>0, <2>1, <2>4, <3>2 DEF NoneOnTheWay, CommandsAreCallers
      <3>4. \/ chan' = chan
            \/ /\ chan'.invalid = chan.invalid /\ chan'.pending.code = chan.pending.code
               /\ chan'.pending.reply = caller.id
        BY <1>0, <2>1, <2>2, <3>1 DEF Outstanding
      <3>5. PendingIsCallers'
        BY <1>0, <2>1, <2>4, <3>1, <3>4 DEF PendingIsCallers, Outstanding
      <3> QED BY <1>0, <2>1, <3>3, <3>5, NoneLeft DEF ReplyInv, ReplyAnswersItsCommand
    <2> QED BY <2>3, <2>4
  <1>2. CASE ReadDeadline
    <2>1. chan'.invalid /\ chan'.pending = NoPending /\ answers' = answers
      BY <1>2 DEF ReadDeadline, RetiredChannel
    <2> QED BY <1>0, <2>1, NoneLeft DEF ReplyInv, PendingIsCallers, ReplyAnswersItsCommand
  <1>3. CASE ReaderEnds
    BY <1>0, <1>3 DEF ReaderEnds, ReplyInv, PendingIsCallers, CommandsAreCallers,
                      RepliesAreCallers, Outstanding, ReplyAnswersItsCommand
  <1> QED BY <1>1, <1>2, <1>3 DEF ReaderSteps

\* Every step keeps the replies with their commands.
LEMMA NextReply == HalfSent = FALSE /\ ReplyInv /\ ControlTyped /\ [PlaneNext]_planeVars => ReplyInv'
  <1> SUFFICES ASSUME HalfSent = FALSE, ReplyInv, ControlTyped, [PlaneNext]_planeVars PROVE ReplyInv'
    OBVIOUS
  <1>0. /\ PendingIsCallers /\ CommandsAreCallers /\ RepliesAreCallers /\ ReplyAnswersItsCommand
        /\ toDevice \in Seq(CommandMsgs \cup WriteMsgs)
    BY DEF ReplyInv, ControlTyped
  <1>s. ASSUME UNCHANGED <<chan, caller, toDevice, fromDevice, answers>> PROVE ReplyInv'
    BY <1>0, <1>s DEF ReplyInv, PendingIsCallers, CommandsAreCallers, RepliesAreCallers,
                      Outstanding, ReplyAnswersItsCommand
  <1>1. CASE OpenUSB
    <2>1. /\ caller' = caller /\ caller.pc = "idle" /\ answers' = answers
          /\ chan' = [invalid |-> FALSE, pending |-> NoPending]
          /\ toDevice' = <<>> /\ fromDevice' = <<>>
      BY <1>1 DEF OpenUSB
    <2>2. NoneOnTheWay'
      BY <2>1 DEF NoneOnTheWay
    <2> QED BY <1>0, <2>1, <2>2, NoneLeft DEF ReplyInv, PendingIsCallers, ReplyAnswersItsCommand
  <1>2. CASE ServerSteps \/ UNCHANGED planeVars
    BY <1>2, <1>s DEF ServerSteps, controlVars, planeVars
  <1>3. CASE CommandSteps
    BY <1>3, CommandReplies
  <1>4. CASE ReaderSteps
    BY <1>4, ReaderReplies
  <1>5. CASE DeviceTakes
    BY <1>5, DeviceReplies
  <1>6. ASSUME NEW h \in handlers, StoreControl(h) PROVE ReplyInv'
    BY <1>6, <1>s DEF StoreControl
  <1>7. ASSUME NEW w \in writers, CopyControl(w) PROVE ReplyInv'
    BY <1>7, <1>s DEF CopyControl
  <1>8. ASSUME NEW w \in writers, SendControl(w) PROVE ReplyInv'
    <2> DEFINE m == [code |-> "write", id |-> w.copy]
    <2>1. /\ toDevice' = toDevice \/ toDevice' = Append(toDevice, m)
          /\ UNCHANGED <<chan, caller, fromDevice, answers>>
      BY <1>8 DEF SendControl
    <2>2. m.code \notin Codes /\ m \in WriteMsgs
      BY <1>8, CodeNames DEF SendControl, WriteMsgs, ControlTyped
    <2> HIDE DEF m
    <2>3. CASE toDevice' = Append(toDevice, m)
      <3>1. /\ Len(toDevice') = Len(toDevice) + 1 /\ Len(toDevice) \in Nat
            /\ \A i \in 1 .. Len(toDevice) : toDevice'[i] = toDevice[i]
            /\ toDevice'[Len(toDevice) + 1] = m
        <4>1. m \in CommandMsgs \cup WriteMsgs
          BY <2>2
        <4>2. Len(toDevice) \in Nat
          BY <1>0
        <4> QED BY <1>0, <2>3, <4>1, <4>2, Appended
      <3>2. \A i \in 1 .. Len(toDevice') :
                toDevice'[i].code \in Codes =>
                    i \in 1 .. Len(toDevice) /\ toDevice'[i] = toDevice[i]
        <4> TAKE i \in 1 .. Len(toDevice')
        <4> QED BY <2>2, <3>1
      <3>3. CommandsAreCallers'
        BY <1>0, <2>1, <3>2 DEF CommandsAreCallers, Outstanding
      <3>4. PendingIsCallers' /\ RepliesAreCallers' /\ ReplyAnswersItsCommand'
        BY <1>0, <2>1 DEF PendingIsCallers, RepliesAreCallers, Outstanding, ReplyAnswersItsCommand
      <3> QED BY <3>3, <3>4 DEF ReplyInv
    <2> QED BY <1>s, <2>1, <2>3
  <1> QED BY <1>1, <1>2, <1>3, <1>4, <1>5, <1>6, <1>7, <1>8 DEF PlaneNext, WriterSteps

(***************************************************************************)
(* The theorems.                                                            *)
(***************************************************************************)
\* At the start nobody holds a descriptor and nothing is on its way.
LEMMA PlaneInitHolds == PlaneInit => HoldInv /\ ControlTyped /\ QuietInv /\ ReplyInv
  <1> SUFFICES ASSUME PlaneInit PROVE HoldInv /\ ControlTyped /\ QuietInv /\ ReplyInv
    OBVIOUS
  <1> USE DEF PlaneInit
  <1>1. IpcTypeOK
    BY IpcConstants DEF IpcInit, IpcTypeOK, Acceptor
  <1>2. HandlersCounted
    BY FS_EmptySet DEF IpcInit, HandlersCounted
  <1>3. AcceptorHolds /\ HandlersHold /\ HandlersDistinct /\ SlotsArrived /\ ~misclosed
    BY DEF IpcInit, Acceptor, AcceptorHolds, AcceptorHolding, HandlersHold, HandlersDistinct,
           SlotsArrived, SlotType, EmptySlot
  <1>4. ControlTyped
    BY ControlConstants DEF ControlTyped, IdleCaller, NoPending, Nothing
  <1>5. QuietInv
    BY DEF IpcInit, Acceptor, QuietInv, WritersAreHandlers, LastWaitIsForHandlers, QuietWhenClosed
  <1>6. ReplyInv
    BY DEF ReplyInv, PendingIsCallers, CommandsAreCallers, RepliesAreCallers,
           ReplyAnswersItsCommand, IdleCaller
  <1> QED BY <1>1, <1>2, <1>3, <1>4, <1>5, <1>6 DEF HoldInv

\* A number that the accept loop or a handler holds names its connection, each connection
\* has at most one holder, and the handlers counted are the handlers there are, whatever the
\* order of accept, dispatch, hang-up and close.
THEOREM DescriptorsHeld == PlaneSpec => []HoldInv
  <1>1. PlaneInit => HoldInv
    BY PlaneInitHolds
  <1> QED BY <1>1, NextHolds, PTL DEF PlaneSpec

\* close() leaves nobody who would use the engine, and no descriptor was closed twice or by
\* somebody who did not hold it.
THEOREM CloseLeavesNobody == PlaneSpec => []CloseIsClean
  <1>1. PlaneInit => HoldInv /\ ControlTyped /\ QuietInv
    BY PlaneInitHolds
  <1>2. (HoldInv /\ ControlTyped /\ QuietInv) /\ [PlaneNext]_planeVars
          => (HoldInv /\ ControlTyped /\ QuietInv)'
    BY NextHolds, NextTyped, NextQuiet
  <1>3. HoldInv /\ ControlTyped /\ QuietInv => CloseIsClean
    <2> SUFFICES ASSUME HoldInv, ControlTyped, QuietInv PROVE CloseIsClean
      OBVIOUS
    <2>1. PlaneTypeOK
      BY DEF PlaneTypeOK, HoldInv, ControlTyped
    <2>2. ~session.open => active = 0
      BY FS_EmptySet DEF HoldInv, HandlersCounted, QuietInv, QuietWhenClosed
    <2> QED BY <2>1, <2>2
            DEF CloseIsClean, ClosedIsQuiet, ClosesItsOwnDescriptor, HoldInv, QuietInv,
                QuietWhenClosed
  <1> QED BY <1>1, <1>2, <1>3, PTL DEF PlaneSpec

\* When a send that fails has not reached the device, sendCommand returns only the reply to
\* its own transmission, for every number of commands, losses and timeouts.
THEOREM RepliesAreOwn ==
    ASSUME HalfSent = FALSE
    PROVE  PlaneSpec => []ReplyAnswersItsCommand
  <1>1. PlaneInit => ReplyInv /\ ControlTyped
    BY PlaneInitHolds
  <1>2. (ReplyInv /\ ControlTyped) /\ [PlaneNext]_planeVars => (ReplyInv /\ ControlTyped)'
    BY NextReply, NextTyped
  <1>3. ReplyInv => ReplyAnswersItsCommand
    BY DEF ReplyInv
  <1> QED BY <1>1, <1>2, <1>3, PTL DEF PlaneSpec
=============================================================================
