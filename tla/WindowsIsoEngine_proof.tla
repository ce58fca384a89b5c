----------------------- MODULE WindowsIsoEngine_proof -----------------------
(***************************************************************************)
(* Why a purge of the isochronous engine drains it, and what a start and a  *)
(* release can rely on, for any number of slots, workers and failures.      *)
(*                                                                         *)
(* That a purge ends in Stopped needs every completed slot to have been     *)
(* processed when the flush of the work item returns.  No single variable   *)
(* says so: the invariant relates the order of the submissions, the slots   *)
(* that wait in it, and who is going to look at them.                       *)
(***************************************************************************)
EXTENDS WindowsIsoEngine, FiniteSetTheorems, TLAPS

(***************************************************************************)
(* The inductive invariant                                                 *)
(***************************************************************************)
States == {"Uninitialized", "Idle", "Submitted", "Completed", "Processing"}
SlotType ==
    [state : States, inFlight : BOOLEAN, needsReuse : BOOLEAN, gen : Nat,
     failures : 0 .. RetryLimit + 1, outcome : {"data", "empty", "error"}, sentIn : Nat]
Contexts ==
    [state : {"Stopped", "Running", "Stopping"}, running : BOOLEAN, gen : Nat,
     healthy : BOOLEAN, healthyGen : Nat, draining : BOOLEAN,
     slots : [Directions -> [Slots -> SlotType]],
     order : [Directions -> Seq(Slots)],
     outstanding : [Directions -> Nat],
     pending : BOOLEAN, active : BOOLEAN, queued : BOOLEAN,
     stopPending : BOOLEAN, stopActive : BOOLEAN,
     prepared : BOOLEAN, stopping : BOOLEAN, stopRequested : BOOLEAN]

State(c, d, i) == c.slots[d][i].state
Live == {"Submitted", "Completed"}

\* Only a running engine counts failures, and it stops at the limit.
CtxOk(c) ==
    /\ c \in Contexts
    /\ c.running <=> c.state = "Running"
    /\ c.healthyGen <= c.gen
    /\ \A d \in Directions, i \in Slots :
         /\ c.slots[d][i].gen <= c.gen /\ c.slots[d][i].sentIn <= c.gen
         /\ c.running => c.slots[d][i].failures <= RetryLimit

\* The bus holds the submitted slots, those of a running engine in its generation.
BusOk(c, b) ==
    \A d \in Directions, i \in Slots :
        /\ <<d, i>> \in b <=> State(c, d, i) = "Submitted"
        /\ c.running /\ State(c, d, i) = "Submitted" => c.slots[d][i].sentIn = c.gen

\* A counter is never below the slots in flight, and exact unless a slot was resubmitted under
\* its completion routine.
InFlight(c, d) == {i \in Slots : c.slots[d][i].inFlight}
FlightOk(c, b, r, o) ==
    /\ \A d \in Directions :
         /\ c.outstanding[d] >= Cardinality(InFlight(c, d))
         /\ o = 0 => c.outstanding[d] = Cardinality(InFlight(c, d))
    /\ o = 0 => \A d \in Directions, i \in Slots :
                   c.slots[d][i].inFlight => <<d, i>> \in b \/ r[<<d, i>>] > 0

\* The slots that wait are in the order of their direction, once; all that are in it wait, but
\* for the output whose refusal stopped the engine, which is the last.
LiveSlots(c, d) == {i \in Slots : State(c, d, i) \in Live}
InOrder(q, live, running) ==
    /\ \A k, l \in DOMAIN q : q[k] = q[l] => k = l
    /\ \A i \in live : \E k \in DOMAIN q : q[k] = i
    /\ \A k \in DOMAIN q : q[k] \in live \/ (~running /\ k = Len(q))
OrderOk(c) == \A d \in Directions : InOrder(c.order[d], LiveSlots(c, d), c.running)

\* The threads, and who is where.
Looking == {"clear", "lock", "output"}
Capturing == {"capture", "sendOutput", "resubmit"}
Locked == {"output"} \cup Capturing
Working == Looking \cup Capturing \cup {"finish"}
Places == Working \cup {"idle", "recheck"}
PurgeSteps == {"none", "enter", "target", "flush", "publish"}
StopPlaces == {"idle", "purge", "purging", "after"}
PnpPlaces == {"present", "purging", "after", "flushed", "released", "refused"}

Types ==
    /\ workers \in [Workers -> [pc : Places, slot : 0 .. SlotCount]]
    /\ lock \in Workers \cup {"none", "purge"}
    /\ routines \in [Requests -> Nat] /\ bus \subseteq Requests
    /\ overtaken \in 0 .. MaxOvertaken
    /\ purge \in [by : Purgers \cup {"none"}, step : PurgeSteps, restart : BOOLEAN]
    /\ threads \in [stop : StopPlaces, pnp : PnpPlaces]

\* One worker at a time is active, the lock has one holder, and pending work has a taker.
WorkInv ==
    /\ \A w \in Workers : lock = w <=> workers[w].pc \in Locked
    /\ lock = "purge" <=> purge.step = "target"
    /\ ctx.active <=> \E w \in Workers : workers[w].pc \in Working
    /\ \A v, w \in Workers : workers[v].pc \in Working /\ workers[w].pc \in Working => v = w
    /\ ctx.pending => ctx.queued \/ \E w \in Workers : ~At(w, "idle")

\* A pair of slots that is being processed is in the hands of a worker.
PairInv ==
    /\ \A w \in Workers :
         /\ workers[w].pc \in {"sendOutput", "resubmit"} =>
               workers[w].slot \in Slots /\ State(ctx, "capture", workers[w].slot) = "Processing"
         /\ At(w, "sendOutput") => State(ctx, "output", workers[w].slot) = "Processing"
    /\ \A i \in Slots :
         /\ State(ctx, "capture", i) = "Processing" =>
               \E w \in Workers : workers[w].pc \in {"sendOutput", "resubmit"} /\ workers[w].slot = i
         /\ State(ctx, "output", i) = "Processing" =>
               \E w \in Workers : At(w, "sendOutput") /\ workers[w].slot = i

\* A slot that could be processed will be looked at: its routine still has to queue the work,
\* the work is queued, a worker is going to look, or one is going to see that work is pending.
NoRoutines == \A r \in Requests : routines[r] = 0
Attended(d) ==
    \/ ~NoRoutines
    \/ \E w \in Workers : workers[w].pc \in Looking
    \/ d = "capture" /\ \E w \in Workers : workers[w].pc \in Capturing
    \/ ctx.pending /\ ctx.active
    \/ ~ctx.active /\ ctx.queued
    \/ ~ctx.active /\ ctx.pending /\ \E w \in Workers : At(w, "recheck")
FoundInv == \A d \in Directions : Found(ctx, d) => Attended(d)

\* A stopped engine is quiet, and so is a purge that has waited for the work item.
Quiet == bus = {} /\ NoRoutines /\ ProcessIdle
NoneLive(c) == \A d \in Directions, i \in Slots : State(c, d, i) \in {"Idle", "Uninitialized"}
StopInv ==
    /\ ctx.state = "Stopped" =>
         /\ Quiet /\ NoneLive(ctx)
         /\ \A d \in Directions, i \in Slots : ~ctx.slots[d][i].inFlight
    /\ ~AllAllocated(ctx) => ctx.state # "Running" /\ NoneLive(ctx)
    /\ purge.step \in {"flush", "publish"} => bus = {} /\ NoRoutines
    /\ purge.step = "publish" => ProcessIdle
    /\ ctx.draining <=> purge.step \in {"target", "flush", "publish"}
    /\ ctx.draining => ctx.state = "Stopping"
    /\ purge.by = "none" <=> purge.step = "none"
    /\ purge.by = "stop" <=> threads["stop"] = "purging"
    /\ purge.by = "pnp" <=> threads["pnp"] = "purging"
    /\ ctx.stopActive <=> threads["stop"] # "idle"

\* Once ReleaseHardware has purged, nothing starts or purges the engine.
Gone == {"after", "flushed", "released", "refused"}
PnpInv ==
    /\ purge.by = "pnp" => ~purge.restart
    /\ ctx.draining => ~ctx.healthy
    /\ threads["pnp"] # "present" => ctx.stopping /\ ~ctx.prepared
    /\ threads["pnp"] \in Gone => purge.by = "none" /\ ~ctx.healthy
    /\ threads["pnp"] \in {"after", "flushed"} =>
         /\ Quiet /\ ctx.state # "Running"
         /\ overtaken = 0 /\ AllAllocated(ctx) => ctx.state = "Stopped"
    /\ threads["pnp"] = "released" => ctx.state = "Stopped"
    /\ threads["pnp"] = "refused" => ctx.state # "Running" /\ (overtaken = 0 => ~AllAllocated(ctx))

Core(c, b, r, o) == CtxOk(c) /\ BusOk(c, b) /\ FlightOk(c, b, r, o)

IInv ==
    /\ Types /\ Core(ctx, bus, routines, overtaken) /\ OrderOk(ctx)
    /\ WorkInv /\ PairInv /\ FoundInv /\ StopInv /\ PnpInv

(***************************************************************************)
(* What the helpers do to a context                                        *)
(***************************************************************************)
Words(c) == <<c.state, c.running, c.gen, c.stopPending, c.stopRequested>>
Rest(c) == <<c.healthy, c.healthyGen, c.draining, c.stopActive, c.prepared, c.stopping>>
Items(c) == <<c.pending, c.active, c.queued>>

LEMMA WithStateIs ==
    ASSUME NEW c \in Contexts, NEW d \in Directions, NEW i \in Slots, NEW s \in States
    PROVE  LET e == WithState(c, d, i, s)
           IN  /\ e \in Contexts
               /\ Words(e) = Words(c) /\ Rest(e) = Rest(c) /\ Items(e) = Items(c)
               /\ e.order = c.order /\ e.outstanding = c.outstanding
               /\ State(e, d, i) = s
               /\ \A f \in Directions, j \in Slots :
                    /\ (f # d \/ j # i) => e.slots[f][j] = c.slots[f][j]
                    /\ e.slots[f][j].inFlight = c.slots[f][j].inFlight
                    /\ e.slots[f][j].gen = c.slots[f][j].gen
                    /\ e.slots[f][j].failures = c.slots[f][j].failures
                    /\ e.slots[f][j].sentIn \in {0, c.slots[f][j].sentIn}
  <1> DEFINE e == WithState(c, d, i, s)
             t == IF s = "Idle" THEN [c.slots[d][i] EXCEPT !.state = s, !.outcome = "data", !.sentIn = 0]
                  ELSE [c.slots[d][i] EXCEPT !.state = s]
  <1>1. e = [c EXCEPT !.slots[d][i] = t]
    <2>1. CASE s = "Idle"
      BY <2>1 DEF WithState
    <2>2. CASE s # "Idle"
      BY <2>2 DEF WithState
    <2> QED BY <2>1, <2>2
  <1>2. c.slots \in [Directions -> [Slots -> SlotType]] /\ c.slots[d][i] \in SlotType
    BY DEF Contexts
  <1>3. t \in SlotType
    BY <1>2 DEF SlotType, States
  <1> HIDE DEF t
  <1>4. e.slots = [c.slots EXCEPT ![d][i] = t]
    BY <1>1 DEF Contexts
  <1>5. e.slots \in [Directions -> [Slots -> SlotType]]
    BY <1>2, <1>3, <1>4
  <1>6. /\ e \in Contexts
        /\ Words(e) = Words(c) /\ Rest(e) = Rest(c) /\ Items(e) = Items(c)
        /\ e.order = c.order /\ e.outstanding = c.outstanding
    <2> HIDE DEF e
    <2> DEFINE z == e.slots
    <2>1. e = [c EXCEPT !.slots = z]
      BY <1>1, <1>4 DEF Contexts
    <2> HIDE DEF z
    <2>2. e \in Contexts
      BY <1>5, <2>1 DEF Contexts, z
    <2> QED BY <2>1, <2>2 DEF Contexts, Words, Rest, Items
  <1>7. t.state = s /\ t.inFlight = c.slots[d][i].inFlight /\ t.gen = c.slots[d][i].gen
        /\ t.failures = c.slots[d][i].failures /\ t.sentIn \in {0, c.slots[d][i].sentIn}
    BY <1>2 DEF SlotType, t
  <1>8. e.slots[d][i] = t
    BY <1>2, <1>4
  <1>9. \A f \in Directions, j \in Slots : (f # d \/ j # i) => e.slots[f][j] = c.slots[f][j]
    BY <1>2, <1>4
  <1> HIDE DEF e
  <1>10. \A f \in Directions, j \in Slots :
                    /\ e.slots[f][j].inFlight = c.slots[f][j].inFlight
                    /\ e.slots[f][j].gen = c.slots[f][j].gen
                    /\ e.slots[f][j].failures = c.slots[f][j].failures
                    /\ e.slots[f][j].sentIn \in {0, c.slots[f][j].sentIn}
    BY <1>7, <1>8, <1>9
  <1> QED BY <1>6, <1>7, <1>8, <1>9, <1>10 DEF e, State

LEMMA FatalStopIs ==
    ASSUME NEW c \in Contexts
    PROVE  LET e == FatalStop(c)
           IN  /\ e \in Contexts
               /\ e.state = "Stopping" /\ ~e.running /\ e.stopPending /\ e.stopRequested
               /\ e.gen \in Nat /\ e.gen >= c.gen
               /\ Rest(e) = Rest(c) /\ Items(e) = Items(c)
               /\ e.slots = c.slots /\ e.order = c.order /\ e.outstanding = c.outstanding
  <1> DEFINE e == FatalStop(c)
             g == IF c.running THEN c.gen + 1 ELSE c.gen
  <1>1. c.gen \in Nat
    BY DEF Contexts
  <1>2. g \in Nat /\ g >= c.gen
    BY <1>1
  <1>3. e = [c EXCEPT !.stopRequested = TRUE, !.state = "Stopping", !.running = FALSE,
                      !.gen = g, !.stopPending = TRUE]
    BY DEF FatalStop
  <1> HIDE DEF g, e
  <1>4. e \in Contexts
    BY <1>2, <1>3 DEF Contexts
  <1>5. /\ e.state = "Stopping" /\ ~e.running /\ e.stopPending /\ e.stopRequested
        /\ e.gen = g
    BY <1>3 DEF Contexts
  <1>6. /\ Rest(e) = Rest(c) /\ Items(e) = Items(c)
        /\ e.slots = c.slots /\ e.order = c.order /\ e.outstanding = c.outstanding
    BY <1>3 DEF Contexts, Rest, Items
  <1> QED BY <1>2, <1>4, <1>5, <1>6 DEF e

LEMMA QueueProcessIs ==
    ASSUME NEW c \in Contexts
    PROVE  LET e == QueueProcess(c)
           IN  /\ e \in Contexts
               /\ e.pending /\ e.active = c.active /\ (e.queued <=> c.queued \/ ~c.active)
               /\ Words(e) = Words(c) /\ Rest(e) = Rest(c)
               /\ e.slots = c.slots /\ e.order = c.order /\ e.outstanding = c.outstanding
  <1> DEFINE e == QueueProcess(c)
             q == c.queued \/ ~c.active
  <1>1. e = [c EXCEPT !.pending = TRUE, !.queued = q]
    BY DEF QueueProcess
  <1>2. q \in BOOLEAN
    OBVIOUS
  <1> HIDE DEF q, e
  <1>3. e \in Contexts
    BY <1>1, <1>2 DEF Contexts
  <1>4. e.pending /\ e.active = c.active /\ e.queued = q
    BY <1>1 DEF Contexts
  <1>5. /\ Words(e) = Words(c) /\ Rest(e) = Rest(c)
        /\ e.slots = c.slots /\ e.order = c.order /\ e.outstanding = c.outstanding
    BY <1>1 DEF Contexts, Words, Rest
  <1> QED BY <1>3, <1>4, <1>5 DEF e, q

Ordered(c, d, s) == [c EXCEPT !.order[d] = s]

LEMMA OrderIs ==
    ASSUME NEW c \in Contexts, NEW d \in Directions, NEW s \in Seq(Slots)
    PROVE  LET e == Ordered(c, d, s)
           IN  /\ e \in Contexts
               /\ Words(e) = Words(c) /\ Rest(e) = Rest(c) /\ Items(e) = Items(c)
               /\ e.slots = c.slots /\ e.outstanding = c.outstanding
               /\ e.order[d] = s
               /\ \A f \in Directions : f # d => e.order[f] = c.order[f]
  <1> DEFINE e == Ordered(c, d, s)
             z == [c.order EXCEPT ![d] = s]
  <1>1. c.order \in [Directions -> Seq(Slots)]
    BY DEF Contexts
  <1>2. z \in [Directions -> Seq(Slots)]
    BY <1>1
  <1>3. z[d] = s /\ \A f \in Directions : f # d => z[f] = c.order[f]
    BY <1>1
  <1>4. e = [c EXCEPT !.order = z]
    BY DEF Ordered
  <1> HIDE DEF e, z
  <1>5. e \in Contexts
    BY <1>2, <1>4 DEF Contexts
  <1>6. /\ Words(e) = Words(c) /\ Rest(e) = Rest(c) /\ Items(e) = Items(c)
        /\ e.slots = c.slots /\ e.outstanding = c.outstanding /\ e.order = z
    BY <1>4 DEF Contexts, Words, Rest, Items
  <1> QED BY <1>3, <1>5, <1>6 DEF e

Failing(c, d, i, n) == [c EXCEPT !.slots[d][i].failures = n]

\* The failures of a slot are counted, and too many of them stop the engine.
LEMMA FailuresAre ==
    ASSUME NEW c \in Contexts, NEW d \in Directions, NEW i \in Slots,
           NEW n \in 0 .. RetryLimit + 1
    PROVE  LET e == Failing(c, d, i, n)
           IN  /\ e \in Contexts
               /\ Words(e) = Words(c) /\ Rest(e) = Rest(c) /\ Items(e) = Items(c)
               /\ e.order = c.order /\ e.outstanding = c.outstanding
               /\ e.slots[d][i].failures = n
               /\ \A f \in Directions, j \in Slots :
                    /\ (f # d \/ j # i) => e.slots[f][j] = c.slots[f][j]
                    /\ State(e, f, j) = State(c, f, j)
                    /\ e.slots[f][j].inFlight = c.slots[f][j].inFlight
                    /\ e.slots[f][j].gen = c.slots[f][j].gen
                    /\ e.slots[f][j].sentIn = c.slots[f][j].sentIn
  <1> DEFINE e == Failing(c, d, i, n)
             t == [c.slots[d][i] EXCEPT !.failures = n]
             z == [c.slots EXCEPT ![d][i] = t]
  <1>1. c.slots \in [Directions -> [Slots -> SlotType]] /\ c.slots[d][i] \in SlotType
    BY DEF Contexts
  <1>2. t \in SlotType
    BY <1>1 DEF SlotType
  <1>3. e = [c EXCEPT !.slots = z]
    BY DEF Contexts, Failing
  <1>4. /\ t.failures = n /\ t.state = c.slots[d][i].state
        /\ t.inFlight = c.slots[d][i].inFlight /\ t.gen = c.slots[d][i].gen
        /\ t.sentIn = c.slots[d][i].sentIn
    BY <1>1 DEF SlotType
  <1> HIDE DEF t, e
  <1>5. z \in [Directions -> [Slots -> SlotType]]
    BY <1>1, <1>2
  <1>6. z[d][i] = t /\ \A f \in Directions, j \in Slots : (f # d \/ j # i) => z[f][j] = c.slots[f][j]
    BY <1>1
  <1> HIDE DEF z
  <1>7. e \in Contexts
    BY <1>3, <1>5 DEF Contexts
  <1>8. /\ Words(e) = Words(c) /\ Rest(e) = Rest(c) /\ Items(e) = Items(c)
        /\ e.order = c.order /\ e.outstanding = c.outstanding /\ e.slots = z
    BY <1>3 DEF Contexts, Words, Rest, Items
  <1>9. \A f \in Directions, j \in Slots :
                    /\ State(e, f, j) = State(c, f, j)
                    /\ e.slots[f][j].inFlight = c.slots[f][j].inFlight
                    /\ e.slots[f][j].gen = c.slots[f][j].gen
                    /\ e.slots[f][j].sentIn = c.slots[f][j].sentIn
    BY <1>4, <1>6, <1>8 DEF State
  <1>10. /\ e.slots[d][i].failures = n
         /\ \A f \in Directions, j \in Slots : (f # d \/ j # i) => e.slots[f][j] = c.slots[f][j]
    BY <1>4, <1>6, <1>8
  <1> QED BY <1>7, <1>8, <1>9, <1>10 DEF e

(***************************************************************************)
(* Steps that leave the requests where they are                            *)
(***************************************************************************)
Follows(e, c) ==
    /\ e \in Contexts
    /\ e.running <=> e.state = "Running"
    /\ e.gen >= c.gen
    /\ e.running => c.running /\ e.gen = c.gen
    /\ e.healthyGen = c.healthyGen /\ e.outstanding = c.outstanding
    /\ \A d \in Directions, i \in Slots :
         /\ e.slots[d][i].inFlight = c.slots[d][i].inFlight
         /\ e.slots[d][i].gen = c.slots[d][i].gen
         /\ e.slots[d][i].sentIn \in {0, c.slots[d][i].sentIn}
         /\ State(e, d, i) = "Submitted" <=> State(c, d, i) = "Submitted"
         /\ State(e, d, i) = "Submitted" => e.slots[d][i].sentIn = c.slots[d][i].sentIn
         /\ e.running => e.slots[d][i].failures <= RetryLimit

LEMMA CoreFollows ==
    ASSUME NEW c, NEW e, NEW b, NEW r, NEW o, Core(c, b, r, o), Follows(e, c)
    PROVE  Core(e, b, r, o)
  <1>1. c \in Contexts /\ e \in Contexts /\ c.gen \in Nat /\ e.gen \in Nat
        /\ c.healthyGen \in Nat
    BY DEF Core, CtxOk, Follows, Contexts
  <1>2. \A d \in Directions, i \in Slots : c.slots[d][i].gen \in Nat /\ c.slots[d][i].sentIn \in Nat
    BY <1>1 DEF Contexts, SlotType
  <1>3. CtxOk(e)
    <2>1. e.healthyGen <= e.gen
      BY <1>1 DEF Core, CtxOk, Follows
    <2>2. \A d \in Directions, i \in Slots :
            /\ e.slots[d][i].gen <= e.gen /\ e.slots[d][i].sentIn <= e.gen
            /\ e.running => e.slots[d][i].failures <= RetryLimit
      BY <1>1, <1>2 DEF Core, CtxOk, Follows
    <2> QED BY <2>1, <2>2 DEF CtxOk, Follows
  <1>4. BusOk(e, b)
    BY DEF Core, BusOk, Follows
  <1>5. \A d \in Directions : InFlight(e, d) = InFlight(c, d)
    BY DEF InFlight, Follows
  <1>6. FlightOk(e, b, r, o)
    BY <1>5 DEF Core, FlightOk, Follows
  <1> QED BY <1>3, <1>4, <1>6 DEF Core

LEMMA FollowsOn ==
    ASSUME NEW c \in Contexts, NEW e, NEW g, Follows(e, c), Follows(g, e)
    PROVE  Follows(g, c)
  <1>1. /\ c.gen \in Nat /\ e.gen \in Nat /\ g.gen \in Nat
    BY DEF Follows, Contexts
  <1>2. g.gen >= c.gen
    BY <1>1 DEF Follows
  <1> QED BY <1>2 DEF Follows

LEMMA WithStateFollows ==
    ASSUME NEW c, CtxOk(c), NEW d \in Directions, NEW i \in Slots, NEW s \in States,
           s # "Submitted", State(c, d, i) # "Submitted"
    PROVE  Follows(WithState(c, d, i, s), c)
  <1> DEFINE e == WithState(c, d, i, s)
  <1>1. c \in Contexts /\ c.gen \in Nat
    BY DEF CtxOk, Contexts
  <1>2. /\ e \in Contexts
        /\ e.state = c.state /\ e.running = c.running /\ e.gen = c.gen
        /\ e.healthyGen = c.healthyGen /\ e.outstanding = c.outstanding
    BY <1>1, WithStateIs DEF Words, Rest
  <1>3. \A f \in Directions, j \in Slots :
         /\ e.slots[f][j].inFlight = c.slots[f][j].inFlight
         /\ e.slots[f][j].gen = c.slots[f][j].gen
         /\ e.slots[f][j].sentIn \in {0, c.slots[f][j].sentIn}
         /\ e.slots[f][j].failures = c.slots[f][j].failures
    BY <1>1, WithStateIs
  <1>4. \A f \in Directions, j \in Slots :
         /\ State(e, f, j) = "Submitted" <=> State(c, f, j) = "Submitted"
         /\ State(e, f, j) = "Submitted" => e.slots[f][j].sentIn = c.slots[f][j].sentIn
    BY <1>1, WithStateIs DEF State
  <1> HIDE DEF e
  <1>5. Follows(e, c)
    BY <1>1, <1>2, <1>3, <1>4 DEF Follows, CtxOk
  <1> QED BY <1>5 DEF e

LEMMA FatalStopFollows ==
    ASSUME NEW c, c \in Contexts
    PROVE  Follows(FatalStop(c), c)
  <1> DEFINE e == FatalStop(c)
  <1>1. /\ e \in Contexts /\ e.state = "Stopping" /\ ~e.running /\ e.gen >= c.gen
        /\ e.healthyGen = c.healthyGen /\ e.outstanding = c.outstanding /\ e.slots = c.slots
    BY FatalStopIs DEF Rest
  <1> HIDE DEF e
  <1>2. Follows(e, c)
    BY <1>1 DEF Follows, State
  <1> QED BY <1>2 DEF e

\* A change of the order, and of nothing else.
LEMMA OrderFollows ==
    ASSUME NEW c, CtxOk(c), NEW d \in Directions, NEW s \in Seq(Slots)
    PROVE  Follows(Ordered(c, d, s), c)
  <1> DEFINE e == Ordered(c, d, s)
  <1>1. c \in Contexts /\ c.gen \in Nat
    BY DEF CtxOk, Contexts
  <1>2. /\ e \in Contexts
        /\ e.state = c.state /\ e.running = c.running /\ e.gen = c.gen
        /\ e.healthyGen = c.healthyGen /\ e.outstanding = c.outstanding /\ e.slots = c.slots
    BY <1>1, OrderIs DEF Words, Rest
  <1> HIDE DEF e
  <1>3. Follows(e, c)
    BY <1>1, <1>2 DEF Follows, CtxOk, State
  <1> QED BY <1>3 DEF e

\* A failure is counted, and stops the engine at the limit.
LEMMA StrikeIs ==
    ASSUME NEW c, CtxOk(c), c.running, NEW d \in Directions, NEW i \in Slots
    PROVE  LET e == Strike(c, d, i)
           IN  /\ Follows(e, c)
               /\ \A f \in Directions, j \in Slots : State(e, f, j) = State(c, f, j)
               /\ e.order = c.order /\ Items(e) = Items(c) /\ Rest(e) = Rest(c)
               /\ Words(e) = Words(c) \/ (e.state = "Stopping" /\ ~e.running)
  <1> DEFINE e == Strike(c, d, i)
             n == c.slots[d][i].failures
             k == n + 1
             m == Failing(c, d, i, k)
  <1>1. c \in Contexts /\ n \in 0 .. RetryLimit + 1 /\ RetryLimit \in Nat /\ c.gen \in Nat
    BY EngineConstants DEF CtxOk, Contexts, SlotType
  <1>2. n <= RetryLimit
    BY DEF CtxOk
  <1>3. e = IF n >= RetryLimit THEN FatalStop(m) ELSE m
    BY DEF Strike, FatalIf, Failing
  <1>4. k \in 0 .. RetryLimit + 1
    BY <1>1, <1>2
  <1> HIDE DEF k
  <1>5. /\ m \in Contexts
        /\ Words(m) = Words(c) /\ Rest(m) = Rest(c) /\ Items(m) = Items(c)
        /\ m.order = c.order /\ m.outstanding = c.outstanding
        /\ m.slots[d][i].failures = k
        /\ \A f \in Directions, j \in Slots :
                  /\ (f # d \/ j # i) => m.slots[f][j] = c.slots[f][j]
                  /\ State(m, f, j) = State(c, f, j)
                  /\ m.slots[f][j].inFlight = c.slots[f][j].inFlight
                  /\ m.slots[f][j].gen = c.slots[f][j].gen
                  /\ m.slots[f][j].sentIn = c.slots[f][j].sentIn
    BY <1>1, <1>4, FailuresAre
  <1> HIDE DEF m
  <1>6. CASE n >= RetryLimit
    <2> DEFINE g == FatalStop(m)
    <2>1. /\ g \in Contexts /\ g.state = "Stopping" /\ ~g.running /\ g.gen >= m.gen
          /\ Rest(g) = Rest(m) /\ Items(g) = Items(m)
          /\ g.slots = m.slots /\ g.order = m.order /\ g.outstanding = m.outstanding
      BY <1>5, FatalStopIs
    <2>2. e = g
      BY <1>3, <1>6
    <2> HIDE DEF g
    <2>3. Follows(g, c)
      BY <1>5, <2>1 DEF Follows, Words, Rest, State
    <2> QED BY <1>5, <2>1, <2>2, <2>3 DEF State
  <1>7. CASE n < RetryLimit
    <2>1. e = m
      BY <1>1, <1>3, <1>7
    <2>2. k <= RetryLimit
      BY <1>1, <1>7 DEF k
    <2>3. Follows(m, c)
      BY <1>1, <1>5, <2>2 DEF Follows, CtxOk, Words, Rest
    <2> QED BY <1>5, <2>1, <2>3
  <1> QED BY <1>1, <1>6, <1>7

\* What a judgement leaves alone, and when it stops the engine.
LEMMA JudgedIs ==
    ASSUME NEW c, CtxOk(c), c.state # "Stopped", NEW d \in Directions, NEW i \in Slots
    PROVE  LET e == Judged(c, d, i)
           IN  /\ Follows(e, c)
               /\ \A f \in Directions, j \in Slots : State(e, f, j) = State(c, f, j)
               /\ e.order = c.order /\ Items(e) = Items(c) /\ Rest(e) = Rest(c)
               /\ Words(e) = Words(c) \/ (e.state = "Stopping" /\ ~e.running)
  <1> DEFINE e == Judged(c, d, i)
             n == c.slots[d][i].failures
             z == Failing(c, d, i, 0)
  <1>1. c \in Contexts /\ n \in 0 .. RetryLimit + 1 /\ RetryLimit \in Nat /\ c.gen \in Nat
    BY EngineConstants DEF CtxOk, Contexts, SlotType
  <1>2. CASE c.slots[d][i].outcome # "error"
    <2>1. e = z
      BY <1>2 DEF Judged, Failing
    <2>2. 0 \in 0 .. RetryLimit + 1 /\ 0 <= RetryLimit
      BY <1>1
    <2>3. /\ z \in Contexts
          /\ Words(z) = Words(c) /\ Rest(z) = Rest(c) /\ Items(z) = Items(c)
          /\ z.order = c.order /\ z.outstanding = c.outstanding
          /\ z.slots[d][i].failures = 0
          /\ \A f \in Directions, j \in Slots :
                    /\ (f # d \/ j # i) => z.slots[f][j] = c.slots[f][j]
                    /\ State(z, f, j) = State(c, f, j)
                    /\ z.slots[f][j].inFlight = c.slots[f][j].inFlight
                    /\ z.slots[f][j].gen = c.slots[f][j].gen
                    /\ z.slots[f][j].sentIn = c.slots[f][j].sentIn
      BY <1>1, <2>2, FailuresAre
    <2> HIDE DEF z
    <2>4. Follows(z, c)
      BY <1>1, <2>2, <2>3 DEF Follows, CtxOk, Words, Rest
    <2> QED BY <2>1, <2>3, <2>4
  <1>3. CASE c.slots[d][i].outcome = "error" /\ ExpectedTeardown(c)
    <2>1. e = c
      BY <1>3 DEF Judged
    <2>2. Follows(c, c)
      BY <1>1 DEF Follows, CtxOk
    <2> QED BY <2>1, <2>2
  <1>4. CASE c.slots[d][i].outcome = "error" /\ ~ExpectedTeardown(c)
    <2>1. c.running
      BY <1>1, <1>4 DEF ExpectedTeardown, Contexts, CtxOk
    <2>2. e = Strike(c, d, i)
      BY <1>4 DEF Judged, Strike
    <2> QED BY <2>1, <2>2, StrikeIs
  <1> QED BY <1>2, <1>3, <1>4

(***************************************************************************)
(* Counting the requests in flight                                         *)
(***************************************************************************)
LEMMA FlightIsFinite ==
    ASSUME NEW c, NEW d
    PROVE  IsFiniteSet(InFlight(c, d)) /\ Cardinality(InFlight(c, d)) \in Nat
  <1>1. IsFiniteSet(Slots) /\ InFlight(c, d) \subseteq Slots
    BY FS_Interval, EngineConstants DEF Slots, InFlight
  <1> QED BY <1>1, FS_Subset, FS_CardinalityType

LEMMA FlightGrows ==
    ASSUME NEW c, NEW e, NEW d \in Directions, NEW i \in Slots,
           e.slots[d][i].inFlight,
           \A j \in Slots : j # i => e.slots[d][j].inFlight = c.slots[d][j].inFlight
    PROVE  Cardinality(InFlight(e, d))
             = Cardinality(InFlight(c, d)) + (IF c.slots[d][i].inFlight THEN 0 ELSE 1)
  <1>1. InFlight(e, d) = InFlight(c, d) \cup {i}
    BY DEF InFlight
  <1>2. i \in InFlight(c, d) <=> c.slots[d][i].inFlight
    BY DEF InFlight
  <1>3. Cardinality(InFlight(c, d) \cup {i})
          = IF i \in InFlight(c, d) THEN Cardinality(InFlight(c, d)) ELSE Cardinality(InFlight(c, d)) + 1
    BY FlightIsFinite, FS_AddElement
  <1> QED BY <1>1, <1>2, <1>3, FlightIsFinite

LEMMA FlightShrinks ==
    ASSUME NEW c, NEW e, NEW d \in Directions, NEW i \in Slots,
           ~e.slots[d][i].inFlight,
           \A j \in Slots : j # i => e.slots[d][j].inFlight = c.slots[d][j].inFlight
    PROVE  Cardinality(InFlight(c, d))
             = Cardinality(InFlight(e, d)) + (IF c.slots[d][i].inFlight THEN 1 ELSE 0)
  <1>1. InFlight(e, d) = InFlight(c, d) \ {i}
    BY DEF InFlight
  <1>2. i \in InFlight(c, d) <=> c.slots[d][i].inFlight
    BY DEF InFlight
  <1>3. Cardinality(InFlight(c, d) \ {i})
          = IF i \in InFlight(c, d) THEN Cardinality(InFlight(c, d)) - 1 ELSE Cardinality(InFlight(c, d))
    BY FlightIsFinite, FS_RemoveElement
  <1> QED BY <1>1, <1>2, <1>3, FlightIsFinite

LEMMA FlightSame ==
    ASSUME NEW c, NEW e, NEW d,
           \A j \in Slots : e.slots[d][j].inFlight = c.slots[d][j].inFlight
    PROVE  InFlight(e, d) = InFlight(c, d)
  BY DEF InFlight

\* The bus holds what it held if no slot was sent or taken back.
LEMMA BusSame ==
    ASSUME NEW c, NEW e, NEW b, BusOk(c, b), e.gen = c.gen, e.running = c.running,
           \A f \in Directions, j \in Slots :
              /\ State(e, f, j) = State(c, f, j)
              /\ e.slots[f][j].sentIn = c.slots[f][j].sentIn
    PROVE  BusOk(e, b)
  BY DEF BusOk

(***************************************************************************)
(* Submissions                                                             *)
(***************************************************************************)
Changed(c, d, i, t, s, n) ==
    [c EXCEPT !.slots[d][i] = t, !.order[d] = s, !.outstanding[d] = n]

\* A change of one slot, of the order and of the counter.
LEMMA SlotIs ==
    ASSUME NEW c \in Contexts, NEW d \in Directions, NEW i \in Slots,
           NEW t \in SlotType, NEW s \in Seq(Slots), NEW n \in Nat
    PROVE  LET e == Changed(c, d, i, t, s, n)
           IN  /\ e \in Contexts
               /\ Words(e) = Words(c) /\ Rest(e) = Rest(c) /\ Items(e) = Items(c)
               /\ e.slots[d][i] = t /\ e.order[d] = s /\ e.outstanding[d] = n
               /\ \A f \in Directions, j \in Slots :
                     (f # d \/ j # i) => e.slots[f][j] = c.slots[f][j]
               /\ \A f \in Directions : f # d => e.order[f] = c.order[f]
                                                 /\ e.outstanding[f] = c.outstanding[f]
  <1> DEFINE e == Changed(c, d, i, t, s, n)
             x == [c.slots EXCEPT ![d][i] = t]
             y == [c.order EXCEPT ![d] = s]
             z == [c.outstanding EXCEPT ![d] = n]
  <1>1. /\ c.slots \in [Directions -> [Slots -> SlotType]]
        /\ c.order \in [Directions -> Seq(Slots)] /\ c.outstanding \in [Directions -> Nat]
    BY DEF Contexts
  <1>2. /\ x \in [Directions -> [Slots -> SlotType]]
        /\ y \in [Directions -> Seq(Slots)] /\ z \in [Directions -> Nat]
    BY <1>1
  <1>3. /\ x[d][i] = t /\ y[d] = s /\ z[d] = n
        /\ \A f \in Directions, j \in Slots : (f # d \/ j # i) => x[f][j] = c.slots[f][j]
        /\ \A f \in Directions : f # d => y[f] = c.order[f] /\ z[f] = c.outstanding[f]
    BY <1>1
  <1>4. e = [c EXCEPT !.slots = x, !.order = y, !.outstanding = z]
    BY DEF Contexts, Changed
  <1> HIDE DEF e, x, y, z
  <1>5. e \in Contexts
    BY <1>2, <1>4 DEF Contexts
  <1>6. /\ Words(e) = Words(c) /\ Rest(e) = Rest(c) /\ Items(e) = Items(c)
        /\ e.slots = x /\ e.order = y /\ e.outstanding = z
    BY <1>4 DEF Contexts, Words, Rest, Items
  <1>7. /\ e.slots[d][i] = t /\ e.order[d] = s /\ e.outstanding[d] = n
        /\ \A f \in Directions, j \in Slots : (f # d \/ j # i) => e.slots[f][j] = c.slots[f][j]
        /\ \A f \in Directions : f # d => e.order[f] = c.order[f]
                                          /\ e.outstanding[f] = c.outstanding[f]
    BY <1>3, <1>6
  <1> QED BY <1>5, <1>6, <1>7 DEF e

\* Whether a submission may be one that overtakes a completion routine.
Counted(r, d, i, o, p) ==
    /\ o \in Nat /\ p \in Nat /\ o <= p
    /\ r[<<d, i>>] > 0 => p > 0

\* What a submission that succeeds does to the context.
LEMMA SentSlots ==
    ASSUME NEW c \in Contexts, NEW d \in Directions, NEW i \in Slots
    PROVE  LET e == Submitted(c, d, i, "sent")
               t == Sent(c.slots[d][i], c.gen)
           IN  /\ e \in Contexts
               /\ Words(e) = Words(c) /\ Rest(e) = Rest(c) /\ Items(e) = Items(c)
               /\ t.state = "Submitted" /\ t.inFlight /\ t.sentIn = c.gen
               /\ t.gen = c.slots[d][i].gen /\ t.failures = c.slots[d][i].failures
               /\ e.slots[d][i] = t
               /\ e.order[d] = Append(c.order[d], i)
               /\ e.outstanding[d] = c.outstanding[d] + 1
               /\ \A f \in Directions, j \in Slots : (f # d \/ j # i) => e.slots[f][j] = c.slots[f][j]
               /\ \A f \in Directions : f # d => e.order[f] = c.order[f]
                                                 /\ e.outstanding[f] = c.outstanding[f]
  <1> DEFINE e == Submitted(c, d, i, "sent")
             t == Sent(c.slots[d][i], c.gen)
             s == Append(c.order[d], i)
             n == c.outstanding[d] + 1
             g == Changed(c, d, i, t, s, n)
  <1>1. /\ c.slots[d][i] \in SlotType /\ c.gen \in Nat /\ s \in Seq(Slots) /\ n \in Nat
    BY DEF Contexts
  <1>2. /\ t \in SlotType /\ t.state = "Submitted" /\ t.inFlight /\ t.sentIn = c.gen
        /\ t.gen = c.slots[d][i].gen /\ t.failures = c.slots[d][i].failures
    BY <1>1 DEF Sent, SlotType, States
  <1>3. e = g
    BY DEF Submitted, Contexts, Changed
  <1> HIDE DEF t, s, n, e
  <1>4. /\ g \in Contexts
        /\ Words(g) = Words(c) /\ Rest(g) = Rest(c) /\ Items(g) = Items(c)
        /\ g.slots[d][i] = t /\ g.order[d] = s /\ g.outstanding[d] = n
        /\ \A f \in Directions, j \in Slots : (f # d \/ j # i) => g.slots[f][j] = c.slots[f][j]
        /\ \A f \in Directions : f # d => g.order[f] = c.order[f]
                                          /\ g.outstanding[f] = c.outstanding[f]
    BY <1>1, <1>2, SlotIs
  <1> HIDE DEF g
  <1> QED BY <1>2, <1>3, <1>4 DEF e, t, s, n

Carrying(b, d, i) == b \cup {<<d, i>>}

\* The request is on the bus, and counted.
LEMMA SentIs ==
    ASSUME NEW c, NEW b, NEW r, NEW o, NEW p, Core(c, b, r, o),
           NEW d \in Directions, NEW i \in Slots,
           State(c, d, i) # "Submitted", Counted(r, d, i, o, p), r[<<d, i>>] \in Nat
    PROVE  Core(Submitted(c, d, i, "sent"), Carrying(b, d, i), r, p)
  <1> DEFINE e == Submitted(c, d, i, "sent")
             t == Sent(c.slots[d][i], c.gen)
             n == c.outstanding[d] + 1
  <1>1. c \in Contexts /\ CtxOk(c) /\ BusOk(c, b) /\ FlightOk(c, b, r, o)
    BY DEF Core, CtxOk
  <1>2. c.gen \in Nat /\ c.outstanding[d] \in Nat
    BY <1>1 DEF Contexts
  <1>5. /\ e \in Contexts
        /\ Words(e) = Words(c) /\ Rest(e) = Rest(c) /\ Items(e) = Items(c)
        /\ e.slots[d][i] = t /\ e.outstanding[d] = n
        /\ \A f \in Directions, j \in Slots : (f # d \/ j # i) => e.slots[f][j] = c.slots[f][j]
        /\ \A f \in Directions : f # d => e.outstanding[f] = c.outstanding[f]
    BY <1>1, SentSlots
  <1>3. /\ t.state = "Submitted" /\ t.inFlight /\ t.sentIn = c.gen
        /\ t.gen = c.slots[d][i].gen /\ t.failures = c.slots[d][i].failures
    BY <1>1, SentSlots
  <1> HIDE DEF t, n, e
  <1>6. /\ State(e, d, i) = "Submitted"
        /\ \A f \in Directions, j \in Slots : (f # d \/ j # i) => State(e, f, j) = State(c, f, j)
    BY <1>3, <1>5 DEF State
  <1>7. CtxOk(e)
    <2>1. \A f \in Directions, j \in Slots :
            /\ e.slots[f][j].gen <= c.gen /\ e.slots[f][j].sentIn <= c.gen
            /\ c.running => e.slots[f][j].failures <= RetryLimit
      BY <1>1, <1>2, <1>3, <1>5 DEF CtxOk
    <2> QED BY <1>1, <1>5, <2>1 DEF CtxOk, Words, Rest
  <1>8. BusOk(e, b \cup {<<d, i>>})
    <2> SUFFICES ASSUME NEW f \in Directions, NEW j \in Slots
                 PROVE  /\ <<f, j>> \in b \cup {<<d, i>>} <=> State(e, f, j) = "Submitted"
                        /\ e.running /\ State(e, f, j) = "Submitted" => e.slots[f][j].sentIn = e.gen
      BY DEF BusOk
    <2>1. e.running = c.running /\ e.gen = c.gen
      BY <1>5 DEF Words
    <2>2. CASE f = d /\ j = i
      BY <1>3, <1>5, <1>6, <2>1, <2>2
    <2>3. CASE f # d \/ j # i
      <3>1. State(e, f, j) = State(c, f, j) /\ e.slots[f][j] = c.slots[f][j]
        BY <1>5, <1>6, <2>3
      <3>2. <<f, j>> # <<d, i>>
        BY <2>3
      <3> QED BY <1>1, <2>1, <3>1, <3>2 DEF BusOk
    <2> QED BY <2>2, <2>3
  <1>9. FlightOk(e, b \cup {<<d, i>>}, r, p)
    <2> DEFINE a == Cardinality(InFlight(c, d))
               z == Cardinality(InFlight(e, d))
    <2>1. z = a + (IF c.slots[d][i].inFlight THEN 0 ELSE 1) /\ a \in Nat
      BY <1>3, <1>5, FlightGrows, FlightIsFinite
    <2>2. p = 0 => o = 0 /\ ~c.slots[d][i].inFlight
      BY <1>1 DEF Counted, FlightOk, BusOk, Core
    <2>3. /\ c.outstanding[d] >= a /\ (o = 0 => c.outstanding[d] = a)
      BY <1>1 DEF FlightOk
    <2> HIDE DEF a, z
    <2>4. e.outstanding[d] >= z /\ (p = 0 => e.outstanding[d] = z)
      BY <1>2, <1>5, <2>1, <2>2, <2>3 DEF n
    <2>5. \A f \in Directions : f # d => InFlight(e, f) = InFlight(c, f)
      BY <1>5, FlightSame
    <2>6. \A f \in Directions :
            /\ e.outstanding[f] >= Cardinality(InFlight(e, f))
            /\ p = 0 => e.outstanding[f] = Cardinality(InFlight(e, f))
      <3> TAKE f \in Directions
      <3>1. CASE f = d
        BY <2>4, <3>1 DEF z
      <3>2. CASE f # d
        BY <1>1, <1>5, <2>2, <2>5, <3>2 DEF FlightOk
      <3> QED BY <3>1, <3>2
    <2>7. p = 0 => \A f \in Directions, j \in Slots :
              e.slots[f][j].inFlight => <<f, j>> \in b \cup {<<d, i>>} \/ r[<<f, j>>] > 0
      BY <1>1, <1>5, <2>2 DEF FlightOk
    <2> QED BY <2>6, <2>7 DEF FlightOk
  <1>10. Core(e, b \cup {<<d, i>>}, r, p)
    BY <1>7, <1>8, <1>9 DEF Core
  <1> QED BY <1>10 DEF e, Carrying

LEMMA RefusedIs ==
    ASSUME NEW c, NEW b, NEW r, NEW o, NEW p, Core(c, b, r, o),
           NEW d \in Directions, NEW i \in Slots,
           State(c, d, i) # "Submitted", Counted(r, d, i, o, p), r[<<d, i>>] \in Nat
    PROVE  LET e == Submitted(c, d, i, "refused")
           IN  /\ Core(e, b, r, p)
               /\ State(e, d, i) = "Completed"
               /\ e.order[d] = Append(c.order[d], i)
               /\ \A f \in Directions : f # d => e.order[f] = c.order[f]
               /\ \A f \in Directions, j \in Slots : (f # d \/ j # i) => State(e, f, j) = State(c, f, j)
               /\ Words(e) = Words(c) /\ Rest(e) = Rest(c)
               /\ e.pending /\ e.active = c.active /\ (e.queued <=> c.queued \/ ~c.active)
  <1> DEFINE e == Submitted(c, d, i, "refused")
             t == [c.slots[d][i] EXCEPT !.state = "Completed", !.needsReuse = TRUE,
                                        !.inFlight = FALSE, !.outcome = "error"]
             s == Append(c.order[d], i)
             n == c.outstanding[d]
             g == Changed(c, d, i, t, s, n)
  <1>1. c \in Contexts /\ CtxOk(c) /\ BusOk(c, b) /\ FlightOk(c, b, r, o)
    BY DEF Core, CtxOk
  <1>2. /\ c.slots[d][i] \in SlotType /\ c.gen \in Nat /\ s \in Seq(Slots) /\ n \in Nat
    BY <1>1 DEF Contexts
  <1>3. /\ t \in SlotType /\ t.state = "Completed" /\ ~t.inFlight /\ t.sentIn = c.slots[d][i].sentIn
        /\ t.gen = c.slots[d][i].gen /\ t.failures = c.slots[d][i].failures
    BY <1>2 DEF SlotType, States
  <1>4. e = QueueProcess(g)
    <2>1. g = [c EXCEPT !.slots[d][i] = t, !.order[d] = s]
      BY <1>1 DEF Contexts, Changed
    <2> QED BY <2>1 DEF Submitted
  <1> HIDE DEF t, s, n
  <1>5. /\ g \in Contexts
        /\ Words(g) = Words(c) /\ Rest(g) = Rest(c) /\ Items(g) = Items(c)
        /\ g.slots[d][i] = t /\ g.order[d] = s /\ g.outstanding[d] = n
        /\ \A f \in Directions, j \in Slots : (f # d \/ j # i) => g.slots[f][j] = c.slots[f][j]
        /\ \A f \in Directions : f # d => g.order[f] = c.order[f]
                                          /\ g.outstanding[f] = c.outstanding[f]
    BY <1>1, <1>2, <1>3, SlotIs
  <1> HIDE DEF g, e
  <1>6. /\ e \in Contexts
        /\ Words(e) = Words(c) /\ Rest(e) = Rest(c)
        /\ e.slots = g.slots /\ e.order = g.order /\ e.outstanding = g.outstanding
        /\ e.pending /\ e.active = c.active /\ (e.queued <=> c.queued \/ ~c.active)
    BY <1>4, <1>5, QueueProcessIs DEF Items
  <1>7. /\ State(e, d, i) = "Completed"
        /\ \A f \in Directions, j \in Slots : (f # d \/ j # i) => State(e, f, j) = State(c, f, j)
    BY <1>3, <1>5, <1>6 DEF State
  <1>8. CtxOk(e)
    <2>1. \A f \in Directions, j \in Slots :
            /\ e.slots[f][j].gen <= c.gen /\ e.slots[f][j].sentIn <= c.gen
            /\ c.running => e.slots[f][j].failures <= RetryLimit
      BY <1>1, <1>2, <1>3, <1>5, <1>6 DEF CtxOk
    <2> QED BY <1>1, <1>6, <2>1 DEF CtxOk, Words, Rest
  <1>9. BusOk(e, b)
    <2> SUFFICES ASSUME NEW f \in Directions, NEW j \in Slots
                 PROVE  /\ <<f, j>> \in b <=> State(e, f, j) = "Submitted"
                        /\ e.running /\ State(e, f, j) = "Submitted" => e.slots[f][j].sentIn = e.gen
      BY DEF BusOk
    <2>1. e.running = c.running /\ e.gen = c.gen
      BY <1>6 DEF Words
    <2>2. CASE f = d /\ j = i
      BY <1>1, <1>7, <2>2 DEF BusOk
    <2>3. CASE f # d \/ j # i
      <3>1. State(e, f, j) = State(c, f, j) /\ e.slots[f][j] = c.slots[f][j]
        BY <1>5, <1>6, <1>7, <2>3
      <3> QED BY <1>1, <2>1, <3>1 DEF BusOk
    <2> QED BY <2>2, <2>3
  <1>10. FlightOk(e, b, r, p)
    <2> DEFINE a == Cardinality(InFlight(c, d))
               z == Cardinality(InFlight(e, d))
    <2>1. a = z + (IF c.slots[d][i].inFlight THEN 1 ELSE 0) /\ z \in Nat
      BY <1>3, <1>5, <1>6, FlightShrinks, FlightIsFinite
    <2>2. p = 0 => o = 0 /\ ~c.slots[d][i].inFlight
      BY <1>1 DEF Counted, FlightOk, BusOk, Core
    <2>3. /\ c.outstanding[d] >= a /\ (o = 0 => c.outstanding[d] = a)
      BY <1>1 DEF FlightOk
    <2> HIDE DEF a, z
    <2>4. e.outstanding[d] >= z /\ (p = 0 => e.outstanding[d] = z)
      BY <1>2, <1>5, <1>6, <2>1, <2>2, <2>3 DEF n
    <2>5. \A f \in Directions : f # d => InFlight(e, f) = InFlight(c, f)
      BY <1>5, <1>6, FlightSame
    <2>6. \A f \in Directions :
            /\ e.outstanding[f] >= Cardinality(InFlight(e, f))
            /\ p = 0 => e.outstanding[f] = Cardinality(InFlight(e, f))
      <3> TAKE f \in Directions
      <3>1. CASE f = d
        BY <2>4, <3>1 DEF z
      <3>2. CASE f # d
        BY <1>1, <1>5, <1>6, <2>2, <2>5, <3>2 DEF FlightOk
      <3> QED BY <3>1, <3>2
    <2>7. p = 0 => \A f \in Directions, j \in Slots :
              e.slots[f][j].inFlight => <<f, j>> \in b \/ r[<<f, j>>] > 0
      BY <1>1, <1>3, <1>5, <1>6, <2>2 DEF FlightOk
    <2> QED BY <2>6, <2>7 DEF FlightOk
  <1>11. Core(e, b, r, p)
    BY <1>8, <1>9, <1>10 DEF Core
  <1> QED BY <1>5, <1>6, <1>7, <1>11 DEF e, s

\* The request is not sent: the slot is idle again.
LEMMA UnsentIs ==
    ASSUME NEW c, CtxOk(c), NEW d \in Directions, NEW i \in Slots,
           State(c, d, i) # "Submitted", NEW result \in {"cancelled", "unusable", "unformatted"}
    PROVE  LET e == Submitted(c, d, i, result)
           IN  /\ Follows(e, c)
               /\ State(e, d, i) = "Idle"
               /\ e.order = c.order
               /\ \A f \in Directions, j \in Slots : (f # d \/ j # i) => State(e, f, j) = State(c, f, j)
               /\ Words(e) = Words(c) /\ Rest(e) = Rest(c) /\ Items(e) = Items(c)
  <1> DEFINE g == WithState(c, d, i, "Idle")
             e == Submitted(c, d, i, result)
             again == IF result = "cancelled" THEN g.slots[d][i].needsReuse ELSE result = "unformatted"
             t == [g.slots[d][i] EXCEPT !.needsReuse = again]
             z == [g.slots EXCEPT ![d][i] = t]
  <1>1. c \in Contexts /\ "Idle" \in States
    BY DEF CtxOk, States
  <1>2. /\ g \in Contexts
        /\ Words(g) = Words(c) /\ Rest(g) = Rest(c) /\ Items(g) = Items(c)
        /\ g.order = c.order
        /\ State(g, d, i) = "Idle"
        /\ \A f \in Directions, j \in Slots : (f # d \/ j # i) => g.slots[f][j] = c.slots[f][j]
    BY <1>1, WithStateIs
  <1>3. Follows(g, c)
    BY <1>1, WithStateFollows
  <1>4. e = [g EXCEPT !.slots = z]
    <2>1. Submitted(c, d, i, result)
            = [g EXCEPT !.slots[d][i].needsReuse = IF result = "cancelled" THEN @ ELSE result = "unformatted"]
      BY DEF Submitted
    <2> HIDE DEF g
    <2> QED BY <1>2, <2>1 DEF Contexts
  <1> HIDE DEF g, e
  <1>5. g.slots \in [Directions -> [Slots -> SlotType]] /\ g.slots[d][i] \in SlotType
    BY <1>2 DEF Contexts
  <1>6. again \in BOOLEAN
    BY <1>5 DEF SlotType
  <1> HIDE DEF again
  <1>7. /\ t \in SlotType /\ t.state = g.slots[d][i].state /\ t.inFlight = g.slots[d][i].inFlight
        /\ t.gen = g.slots[d][i].gen /\ t.sentIn = g.slots[d][i].sentIn
        /\ t.failures = g.slots[d][i].failures
    BY <1>5, <1>6 DEF SlotType
  <1> HIDE DEF t
  <1>8. /\ z \in [Directions -> [Slots -> SlotType]] /\ z[d][i] = t
        /\ \A f \in Directions, j \in Slots : (f # d \/ j # i) => z[f][j] = g.slots[f][j]
    BY <1>5, <1>7
  <1> HIDE DEF z
  <1>9. e \in Contexts
    BY <1>2, <1>4, <1>8 DEF Contexts
  <1>10. /\ Words(e) = Words(g) /\ Rest(e) = Rest(g) /\ Items(e) = Items(g)
         /\ e.order = g.order /\ e.outstanding = g.outstanding /\ e.slots = z
    BY <1>2, <1>4 DEF Contexts, Words, Rest, Items
  <1>11. \A f \in Directions, j \in Slots :
            /\ State(e, f, j) = State(g, f, j)
            /\ e.slots[f][j].inFlight = g.slots[f][j].inFlight
            /\ e.slots[f][j].gen = g.slots[f][j].gen
            /\ e.slots[f][j].sentIn = g.slots[f][j].sentIn
            /\ e.slots[f][j].failures = g.slots[f][j].failures
    BY <1>7, <1>8, <1>10 DEF State
  <1>12. Follows(e, c)
    BY <1>3, <1>9, <1>10, <1>11 DEF Follows, Words, Rest
  <1>13. \A f \in Directions, j \in Slots : (f # d \/ j # i) => State(e, f, j) = State(c, f, j)
    BY <1>2, <1>11 DEF State
  <1> QED BY <1>2, <1>10, <1>11, <1>12, <1>13 DEF e

(***************************************************************************)
(* The order of the submissions                                            *)
(***************************************************************************)
LEMMA OrderTail ==
    ASSUME NEW q \in Seq(Slots), q # <<>>, NEW live, NEW running,
           InOrder(q, live, running)
    PROVE  /\ InOrder(Tail(q), live \ {Head(q)}, running)
           /\ Tail(q) \in Seq(Slots) /\ Head(q) \in Slots
  <1>1. /\ Tail(q) \in Seq(Slots) /\ Len(q) \in Nat /\ Len(q) >= 1 /\ Head(q) = q[1]
        /\ Len(Tail(q)) = Len(q) - 1 /\ Head(q) \in Slots
        /\ DOMAIN q = 1 .. Len(q) /\ DOMAIN Tail(q) = 1 .. (Len(q) - 1)
        /\ \A k \in 1 .. (Len(q) - 1) : Tail(q)[k] = q[k + 1]
    OBVIOUS
  <1>2. \A k \in DOMAIN Tail(q) : k + 1 \in DOMAIN q /\ Tail(q)[k] = q[k + 1] /\ k \in Int
    BY <1>1
  <1>3. \A k, l \in DOMAIN Tail(q) : Tail(q)[k] = Tail(q)[l] => k = l
    BY <1>1, <1>2 DEF InOrder
  <1>4. \A i \in live \ {Head(q)} : \E k \in DOMAIN Tail(q) : Tail(q)[k] = i
    <2> TAKE i \in live \ {Head(q)}
    <2>1. PICK k \in DOMAIN q : q[k] = i
      BY DEF InOrder
    <2>2. k # 1 /\ k - 1 \in DOMAIN Tail(q)
      BY <1>1, <2>1
    <2>3. Tail(q)[k - 1] = i
      BY <1>1, <2>1, <2>2
    <2> QED BY <2>2, <2>3
  <1>5. \A k \in DOMAIN Tail(q) : Tail(q)[k] \in live \ {Head(q)} \/ (~running /\ k = Len(Tail(q)))
    <2> TAKE k \in DOMAIN Tail(q)
    <2>1. q[k + 1] # q[1]
      BY <1>1, <1>2 DEF InOrder
    <2>2. q[k + 1] \in live \/ (~running /\ k + 1 = Len(q))
      BY <1>2 DEF InOrder
    <2> QED BY <1>1, <1>2, <2>1, <2>2
  <1> QED BY <1>1, <1>3, <1>4, <1>5 DEF InOrder

\* A slot that does not wait is appended; it waits from then on, or the engine stops.
LEMMA OrderAppend ==
    ASSUME NEW q \in Seq(Slots), NEW live, InOrder(q, live, TRUE),
           NEW i \in Slots, i \notin live, NEW more, NEW running,
           more = live \cup {i} \/ (more = live /\ ~running)
    PROVE  InOrder(Append(q, i), more, running) /\ Append(q, i) \in Seq(Slots)
  <1>1. /\ Append(q, i) \in Seq(Slots) /\ Len(q) \in Nat
        /\ Len(Append(q, i)) = Len(q) + 1
        /\ DOMAIN q = 1 .. Len(q) /\ DOMAIN Append(q, i) = 1 .. (Len(q) + 1)
        /\ \A k \in 1 .. Len(q) : Append(q, i)[k] = q[k]
        /\ Append(q, i)[Len(q) + 1] = i
    OBVIOUS
  <1>2. \A k \in DOMAIN q : q[k] \in live /\ q[k] # i
    BY DEF InOrder
  <1>3. \A k, l \in DOMAIN Append(q, i) : Append(q, i)[k] = Append(q, i)[l] => k = l
    <2> TAKE k, l \in DOMAIN Append(q, i)
    <2>1. (k \in DOMAIN q \/ k = Len(q) + 1) /\ (l \in DOMAIN q \/ l = Len(q) + 1)
      BY <1>1
    <2> QED BY <1>1, <1>2, <2>1 DEF InOrder
  <1>4. \A j \in more : \E k \in DOMAIN Append(q, i) : Append(q, i)[k] = j
    <2> TAKE j \in more
    <2>1. CASE j = i
      BY <1>1, <2>1
    <2>2. CASE j # i
      <3>1. PICK k \in DOMAIN q : q[k] = j
        BY <2>2 DEF InOrder
      <3> QED BY <1>1, <3>1
    <2> QED BY <2>1, <2>2
  <1>5. \A k \in DOMAIN Append(q, i) : Append(q, i)[k] \in more \/ (~running /\ k = Len(Append(q, i)))
    <2> TAKE k \in DOMAIN Append(q, i)
    <2>1. k \in DOMAIN q \/ k = Len(q) + 1
      BY <1>1
    <2> QED BY <1>1, <1>2, <2>1
  <1> QED BY <1>1, <1>3, <1>4, <1>5 DEF InOrder

LEMMA OrderKept ==
    ASSUME NEW q, NEW live, NEW running, NEW still, InOrder(q, live, running), still => running
    PROVE  InOrder(q, live, still)
  BY DEF InOrder

\* The oldest submission of a direction in which a slot waits.
LEMMA OldestWaits ==
    ASSUME NEW c \in Contexts, OrderOk(c), NEW d \in Directions,
           NEW i \in Slots, State(c, d, i) \in Live
    PROVE  /\ c.order[d] # <<>> /\ Head(c.order[d]) \in Slots
           /\ State(c, d, Head(c.order[d])) \in Live
  <1> DEFINE q == c.order[d]
  <1>1. q \in Seq(Slots) /\ i \in LiveSlots(c, d) /\ InOrder(q, LiveSlots(c, d), c.running)
    BY DEF Contexts, OrderOk, LiveSlots
  <1>2. PICK k \in DOMAIN q : q[k] = i
    BY <1>1 DEF InOrder
  <1>3. /\ DOMAIN q = 1 .. Len(q) /\ Len(q) \in Nat /\ k \in 1 .. Len(q)
        /\ q # <<>> /\ Head(q) = q[1] /\ q[1] \in Slots /\ 1 \in DOMAIN q
    BY <1>1, <1>2
  <1> HIDE DEF q
  <1>4. q[1] \in LiveSlots(c, d)
    <2>1. CASE q[1] \in LiveSlots(c, d)
      BY <2>1
    <2>2. CASE Len(q) = 1
      <3>1. k = 1
        <4>1. k \in 1 .. 1
          BY <1>3, <2>2
        <4> QED BY <4>1
      <3> QED BY <1>1, <1>2, <3>1
    <2> QED BY <1>1, <1>3, <2>1, <2>2 DEF InOrder
  <1> QED BY <1>3, <1>4 DEF LiveSlots, q

(***************************************************************************)
(* Steps of a busy engine: what they mean for its stops and for PnP        *)
(***************************************************************************)
LEMMA BusyHolds ==
    ASSUME StopInv, PnpInv, Types, Types', ~Quiet,
           purge' = purge, threads' = threads, Rest(ctx') = Rest(ctx),
           ctx'.state \in {ctx.state, "Stopping"}, overtaken <= overtaken',
           purge.step # "publish",
           purge.step = "flush" => bus' = {} /\ NoRoutines',
           AllAllocated(ctx) => AllAllocated(ctx'),
           ~AllAllocated(ctx) => \A d \in Directions, i \in Slots : State(ctx', d, i) = State(ctx, d, i)
    PROVE  StopInv' /\ PnpInv'
  <1>1. /\ ctx'.draining = ctx.draining /\ ctx'.stopActive = ctx.stopActive
        /\ ctx'.healthy = ctx.healthy /\ ctx'.prepared = ctx.prepared /\ ctx'.stopping = ctx.stopping
    BY DEF Rest
  <1>2. ctx.state # "Stopped" /\ threads["pnp"] \notin {"after", "flushed"}
    BY DEF StopInv, PnpInv
  <1>3. ctx'.state # "Stopped"
    BY <1>2
  <1>4. ~AllAllocated(ctx') => ctx'.state # "Running" /\ NoneLive(ctx')
    BY DEF StopInv, NoneLive
  <1>5. StopInv'
    BY <1>1, <1>3, <1>4 DEF StopInv
  <1>6. overtaken' = 0 => overtaken = 0
    BY DEF Types
  <1>7. ~AllAllocated(ctx) => ~AllAllocated(ctx')
    BY DEF AllAllocated, State, Requests
  <1>8. threads["pnp"] # "released"
    BY <1>2 DEF PnpInv
  <1>9. PnpInv'
    BY <1>1, <1>2, <1>6, <1>7, <1>8 DEF PnpInv, Gone
  <1> QED BY <1>5, <1>9

LEMMA WorkersApart == \A w \in Workers : w # "none" /\ w # "purge"
  BY LockHolders

(***************************************************************************)
(* The completion routine                                                  *)
(***************************************************************************)
LEMMA CompleteHolds ==
    ASSUME IInv, NEW d \in Directions, NEW i \in Slots, NEW outcome, Complete(d, i, outcome)
    PROVE  IInv'
  <1> DEFINE o == overtaken
             old == ctx.slots[d][i]
             t == [old EXCEPT !.outcome = outcome, !.needsReuse = TRUE, !.state = "Completed"]
             s == ctx.order[d]
             n == ctx.outstanding[d]
  <1>1. /\ <<d, i>> \in bus /\ bus' = bus \ {<<d, i>>}
        /\ routines' = [routines EXCEPT ![<<d, i>>] = @ + 1]
        /\ outcome \in {"data", "empty", "error"}
        /\ UNCHANGED <<lock, workers, purge, threads, overtaken>>
    BY DEF Complete, Outcomes
  <1>2. /\ ctx \in Contexts /\ CtxOk(ctx) /\ BusOk(ctx, bus) /\ FlightOk(ctx, bus, routines, o)
        /\ OrderOk(ctx) /\ Types
    BY DEF IInv, Core, CtxOk
  <1>3. /\ old \in SlotType /\ old.state = "Submitted" /\ s \in Seq(Slots) /\ n \in Nat
    BY <1>1, <1>2 DEF Contexts, BusOk, State
  <1>4. /\ t \in SlotType /\ t.state = "Completed" /\ t.inFlight = old.inFlight
        /\ t.sentIn = old.sentIn /\ t.gen = old.gen /\ t.failures = old.failures
    BY <1>1, <1>3 DEF SlotType, States
  <1>5. ctx' = Changed(ctx, d, i, t, s, n)
    <2>1. ctx' = [ctx EXCEPT !.slots[d][i] = t]
      <3>1. Answered(old, outcome) = t
        BY <1>3 DEF Answered
      <3>2. ctx' = [ctx EXCEPT !.slots[d][i] = Answered(@, outcome)]
        BY DEF Complete
      <3> HIDE DEF t
      <3> QED BY <3>1, <3>2
    <2> HIDE DEF t
    <2> QED BY <1>2, <2>1 DEF Changed, Contexts
  <1> HIDE DEF t
  <1>6. /\ ctx' \in Contexts
        /\ Words(ctx') = Words(ctx) /\ Rest(ctx') = Rest(ctx) /\ Items(ctx') = Items(ctx)
        /\ ctx'.slots[d][i] = t /\ ctx'.order[d] = s /\ ctx'.outstanding[d] = n
        /\ \A f \in Directions, j \in Slots : (f # d \/ j # i) => ctx'.slots[f][j] = ctx.slots[f][j]
        /\ \A f \in Directions : f # d => ctx'.order[f] = ctx.order[f]
                                          /\ ctx'.outstanding[f] = ctx.outstanding[f]
    <2> HIDE DEF s, n, old
    <2> QED BY <1>2, <1>3, <1>4, <1>5, SlotIs
  <1>7. /\ State(ctx', d, i) = "Completed" /\ State(ctx, d, i) = "Submitted"
        /\ \A f \in Directions, j \in Slots : (f # d \/ j # i) => State(ctx', f, j) = State(ctx, f, j)
        /\ \A f \in Directions : ctx'.order[f] = ctx.order[f] /\ ctx'.outstanding[f] = ctx.outstanding[f]
        /\ \A f \in Directions, j \in Slots : ctx'.slots[f][j].inFlight = ctx.slots[f][j].inFlight
    BY <1>3, <1>4, <1>6 DEF State
  <1>8. <<d, i>> \in Requests /\ routines \in [Requests -> Nat]
    BY <1>2 DEF Requests, Types
  <1>9. /\ routines' \in [Requests -> Nat] /\ routines'[<<d, i>>] > 0
        /\ \A r \in Requests : routines'[r] >= routines[r] /\ routines[r] \in Nat
    BY <1>1, <1>8
  <1>10. Types'
    BY <1>1, <1>2, <1>9 DEF Types
  <1>11. CtxOk(ctx')
    BY <1>2, <1>3, <1>4, <1>6 DEF CtxOk, Words, Rest
  <1>12. BusOk(ctx', bus')
    <2> SUFFICES ASSUME NEW f \in Directions, NEW j \in Slots
                 PROVE  /\ <<f, j>> \in bus' <=> State(ctx', f, j) = "Submitted"
                        /\ ctx'.running /\ State(ctx', f, j) = "Submitted"
                             => ctx'.slots[f][j].sentIn = ctx'.gen
      BY DEF BusOk
    <2>1. CASE f = d /\ j = i
      BY <1>1, <1>7, <2>1
    <2>2. CASE f # d \/ j # i
      <3>1. State(ctx', f, j) = State(ctx, f, j) /\ ctx'.slots[f][j] = ctx.slots[f][j]
        BY <1>6, <1>7, <2>2
      <3>2. <<f, j>> # <<d, i>>
        BY <2>2
      <3> QED BY <1>1, <1>2, <1>6, <3>1, <3>2 DEF BusOk, Words
    <2> QED BY <2>1, <2>2
  <1>13. FlightOk(ctx', bus', routines', overtaken')
    <2>1. \A f \in Directions : InFlight(ctx', f) = InFlight(ctx, f)
      BY <1>7, FlightSame
    <2>2. ASSUME o = 0, NEW f \in Directions, NEW j \in Slots, ctx'.slots[f][j].inFlight
          PROVE  <<f, j>> \in bus' \/ routines'[<<f, j>>] > 0
      <3>1. <<f, j>> \in bus \/ routines[<<f, j>>] > 0
        BY <1>2, <1>7, <2>2 DEF FlightOk
      <3>2. <<f, j>> \in Requests
        BY DEF Requests
      <3> QED BY <1>1, <1>9, <3>1, <3>2
    <2> QED BY <1>1, <1>2, <1>7, <2>1, <2>2 DEF FlightOk
  <1>14. OrderOk(ctx')
    <2>1. \A f \in Directions : LiveSlots(ctx', f) = LiveSlots(ctx, f)
      BY <1>7 DEF LiveSlots, Live
    <2> QED BY <1>2, <1>6, <1>7, <2>1 DEF OrderOk, Words
  <1>15. WorkInv'
    BY <1>1, <1>6 DEF IInv, WorkInv, Items, At
  <1>16. PairInv'
    <2>1. \A f \in Directions, j \in Slots : State(ctx', f, j) = "Processing" <=> State(ctx, f, j) = "Processing"
      BY <1>7
    <2> QED BY <1>1, <2>1 DEF IInv, PairInv, At, Directions
  <1>17. FoundInv'
    BY <1>8, <1>9 DEF FoundInv, Attended, NoRoutines
  <1>18. StopInv' /\ PnpInv'
    <2>1. AllAllocated(ctx)
      BY <1>7 DEF IInv, StopInv, NoneLive
    <2>2. AllAllocated(ctx')
      BY <1>7, <2>1 DEF AllAllocated, State, Requests
    <2>3. bus # {}
      BY <1>1
    <2>4. StopInv /\ PnpInv
      BY DEF IInv
    <2>5. purge.step \notin {"flush", "publish"}
      BY <2>3, <2>4 DEF StopInv
    <2>6. overtaken <= overtaken'
      BY <1>1, <1>2 DEF Types
    <2> QED BY <1>1, <1>2, <1>6, <1>10, <2>1, <2>2, <2>3, <2>4, <2>5, <2>6, BusyHolds DEF Quiet, Words
  <1> QED BY <1>10, <1>11, <1>12, <1>13, <1>14, <1>15, <1>16, <1>17, <1>18 DEF IInv, Core

\* The routine takes its request off the count, if nothing has done it.
LEMMA RetiredIs ==
    ASSUME Core(ctx, bus, routines, overtaken), Types, NEW d \in Directions, NEW i \in Slots
    PROVE  LET e == Retired(ctx, d, i)
           IN  /\ CtxOk(e) /\ BusOk(e, bus) /\ e.order = ctx.order
               /\ Words(e) = Words(ctx) /\ Rest(e) = Rest(ctx) /\ Items(e) = Items(ctx)
               /\ \A f \in Directions, j \in Slots : State(e, f, j) = State(ctx, f, j)
               /\ ~e.slots[d][i].inFlight
               /\ \A f \in Directions, j \in Slots : e.slots[f][j].inFlight => ctx.slots[f][j].inFlight
               /\ \A f \in Directions :
                    /\ e.outstanding[f] >= Cardinality(InFlight(e, f))
                    /\ overtaken = 0 => e.outstanding[f] = Cardinality(InFlight(e, f))
  <1>1. /\ ctx \in Contexts /\ CtxOk(ctx) /\ BusOk(ctx, bus) /\ FlightOk(ctx, bus, routines, overtaken)
    BY DEF Core, CtxOk
  <1>2. CASE ~ctx.slots[d][i].inFlight
    BY <1>1, <1>2 DEF Retired, FlightOk
  <1>3. CASE ctx.slots[d][i].inFlight
    <2> DEFINE e == Retired(ctx, d, i)
               old == ctx.slots[d][i]
               t == [old EXCEPT !.inFlight = FALSE]
               s == ctx.order[d]
               n == ctx.outstanding[d] - 1
    <2>1. old \in SlotType /\ s \in Seq(Slots) /\ ctx.outstanding[d] \in Nat
      BY <1>1 DEF Contexts
    <2>2. ctx.outstanding[d] >= Cardinality(InFlight(ctx, d))
      BY <1>1 DEF FlightOk
    <2>3. i \in InFlight(ctx, d)
      BY <1>3 DEF InFlight
    <2>4. Cardinality(InFlight(ctx, d)) >= 1
      BY <2>3, FlightIsFinite, FS_EmptySet
    <2>5. n \in Nat
      BY <2>1, <2>2, <2>4, FlightIsFinite
    <2>6. /\ t \in SlotType /\ t.state = old.state /\ ~t.inFlight
          /\ t.sentIn = old.sentIn /\ t.gen = old.gen /\ t.failures = old.failures
      BY <2>1 DEF SlotType
    <2>7. e = Changed(ctx, d, i, t, s, n)
      <3>1. e = [ctx EXCEPT !.slots[d][i] = t, !.outstanding[d] = n]
        BY <1>1, <1>3 DEF Retired, Contexts
      <3> HIDE DEF t, n, e
      <3> QED BY <1>1, <3>1 DEF Changed, Contexts
    <2> HIDE DEF t, n, e
    <2>8. /\ e \in Contexts
          /\ Words(e) = Words(ctx) /\ Rest(e) = Rest(ctx) /\ Items(e) = Items(ctx)
          /\ e.slots[d][i] = t /\ e.order[d] = s /\ e.outstanding[d] = n
          /\ \A f \in Directions, j \in Slots : (f # d \/ j # i) => e.slots[f][j] = ctx.slots[f][j]
          /\ \A f \in Directions : f # d => e.order[f] = ctx.order[f]
                                            /\ e.outstanding[f] = ctx.outstanding[f]
      BY <1>1, <2>1, <2>5, <2>6, <2>7, SlotIs
    <2>9. \A f \in Directions, j \in Slots :
             /\ State(e, f, j) = State(ctx, f, j)
             /\ e.slots[f][j].sentIn = ctx.slots[f][j].sentIn
             /\ e.slots[f][j].gen = ctx.slots[f][j].gen
             /\ e.slots[f][j].failures = ctx.slots[f][j].failures
             /\ e.slots[f][j].inFlight => ctx.slots[f][j].inFlight
      BY <2>6, <2>8 DEF State
    <2>10. e.order = ctx.order
      <3>1. e.order \in [Directions -> Seq(Slots)] /\ ctx.order \in [Directions -> Seq(Slots)]
        BY <1>1, <2>8 DEF Contexts
      <3>2. \A f \in Directions : e.order[f] = ctx.order[f]
        BY <2>8
      <3> QED BY <3>1, <3>2
    <2>11. CtxOk(e)
      BY <1>1, <2>8, <2>9 DEF CtxOk, Words, Rest
    <2>12. BusOk(e, bus)
      <3>1. e.gen = ctx.gen /\ e.running = ctx.running
        BY <2>8 DEF Words
      <3> QED BY <1>1, <2>9, <3>1, BusSame
    <2>13. Cardinality(InFlight(ctx, d)) = Cardinality(InFlight(e, d)) + 1
      BY <1>3, <2>6, <2>8, FlightShrinks
    <2>14. \A f \in Directions :
             /\ e.outstanding[f] >= Cardinality(InFlight(e, f))
             /\ overtaken = 0 => e.outstanding[f] = Cardinality(InFlight(e, f))
      <3> TAKE f \in Directions
      <3>1. CASE f = d
        <4>1. /\ ctx.outstanding[d] >= Cardinality(InFlight(ctx, d))
              /\ overtaken = 0 => ctx.outstanding[d] = Cardinality(InFlight(ctx, d))
          BY <1>1 DEF FlightOk
        <4> QED BY <2>1, <2>8, <2>13, <3>1, <4>1, FlightIsFinite DEF n
      <3>2. CASE f # d
        <4>1. InFlight(e, f) = InFlight(ctx, f)
          BY <2>8, <3>2, FlightSame
        <4> QED BY <1>1, <2>8, <3>2, <4>1 DEF FlightOk
      <3> QED BY <3>1, <3>2
    <2> QED BY <2>6, <2>8, <2>9, <2>10, <2>11, <2>12, <2>14 DEF e
  <1> QED BY <1>2, <1>3

LEMMA RetireHolds ==
    ASSUME IInv, NEW d \in Directions, NEW i \in Slots, RetireRequest(d, i)
    PROVE  IInv'
  <1> DEFINE e == Retired(ctx, d, i)
  <1>1. /\ routines[<<d, i>>] > 0 /\ ctx' = QueueProcess(e)
        /\ routines' = [routines EXCEPT ![<<d, i>>] = @ - 1]
        /\ UNCHANGED <<bus, lock, workers, purge, threads, overtaken>>
    BY DEF RetireRequest
  <1>2. Core(ctx, bus, routines, overtaken) /\ Types /\ OrderOk(ctx) /\ ctx \in Contexts
    BY DEF IInv, Core, CtxOk
  <1>3. /\ CtxOk(e) /\ BusOk(e, bus) /\ e.order = ctx.order
        /\ Words(e) = Words(ctx) /\ Rest(e) = Rest(ctx) /\ Items(e) = Items(ctx)
        /\ \A f \in Directions, j \in Slots : State(e, f, j) = State(ctx, f, j)
        /\ ~e.slots[d][i].inFlight
        /\ \A f \in Directions, j \in Slots : e.slots[f][j].inFlight => ctx.slots[f][j].inFlight
        /\ \A f \in Directions :
             /\ e.outstanding[f] >= Cardinality(InFlight(e, f))
             /\ overtaken = 0 => e.outstanding[f] = Cardinality(InFlight(e, f))
    BY <1>2, RetiredIs
  <1> HIDE DEF e
  <1>4. e \in Contexts
    BY <1>3 DEF CtxOk
  <1>5. /\ ctx' \in Contexts
        /\ ctx'.pending /\ ctx'.active = ctx.active /\ (ctx'.queued <=> ctx.queued \/ ~ctx.active)
        /\ Words(ctx') = Words(ctx) /\ Rest(ctx') = Rest(ctx)
        /\ ctx'.slots = e.slots /\ ctx'.order = ctx.order /\ ctx'.outstanding = e.outstanding
    BY <1>1, <1>3, <1>4, QueueProcessIs DEF Items
  <1>6. \A f \in Directions, j \in Slots : State(ctx', f, j) = State(ctx, f, j)
    BY <1>3, <1>5 DEF State
  <1>7. <<d, i>> \in Requests /\ routines \in [Requests -> Nat]
    BY <1>2 DEF Requests, Types
  <1>8. /\ routines' \in [Requests -> Nat]
        /\ \A r \in Requests : r # <<d, i>> => routines'[r] = routines[r]
    BY <1>1, <1>7
  <1>9. Types'
    BY <1>1, <1>2, <1>8 DEF Types
  <1>10. CtxOk(ctx')
    BY <1>3, <1>5 DEF CtxOk, Words, Rest
  <1>11. BusOk(ctx', bus')
    <2>1. \A f \in Directions, j \in Slots :
             /\ State(ctx', f, j) = State(e, f, j)
             /\ ctx'.slots[f][j].sentIn = e.slots[f][j].sentIn
      BY <1>3, <1>5, <1>6
    <2>2. ctx'.gen = e.gen /\ ctx'.running = e.running /\ bus' = bus
      BY <1>1, <1>3, <1>5 DEF Words
    <2> QED BY <1>3, <2>1, <2>2, BusSame
  <1>12. FlightOk(ctx', bus', routines', overtaken')
    <2>1. \A f \in Directions : InFlight(ctx', f) = InFlight(e, f)
      BY <1>5, FlightSame
    <2>2. ASSUME overtaken = 0, NEW f \in Directions, NEW j \in Slots, ctx'.slots[f][j].inFlight
          PROVE  <<f, j>> \in bus' \/ routines'[<<f, j>>] > 0
      <3>1. ctx.slots[f][j].inFlight
        BY <1>3, <1>5, <2>2
      <3>2. <<f, j>> \in bus \/ routines[<<f, j>>] > 0
        BY <1>2, <2>2, <3>1 DEF Core, FlightOk
      <3>3. <<f, j>> # <<d, i>>
        BY <1>3, <1>5, <2>2
      <3>4. <<f, j>> \in Requests
        BY DEF Requests
      <3> QED BY <1>1, <1>8, <3>2, <3>3, <3>4
    <2>3. \A f \in Directions :
             /\ ctx'.outstanding[f] >= Cardinality(InFlight(ctx', f))
             /\ overtaken = 0 => ctx'.outstanding[f] = Cardinality(InFlight(ctx', f))
      BY <1>3, <1>5, <2>1
    <2> QED BY <1>1, <2>2, <2>3 DEF FlightOk
  <1>13. OrderOk(ctx')
    <2>1. \A f \in Directions : LiveSlots(ctx', f) = LiveSlots(ctx, f)
      BY <1>6 DEF LiveSlots
    <2> QED BY <1>2, <1>5, <2>1 DEF OrderOk, Words
  <1>14. WorkInv'
    <2>1. WorkInv
      BY DEF IInv
    <2>2. ctx'.queued \/ \E w \in Workers : ~At(w, "idle")
      BY <1>5, <2>1 DEF WorkInv, Working, Looking, Capturing, At
    <2>3. workers' = workers /\ lock' = lock /\ purge' = purge
      BY <1>1
    <2> QED BY <1>5, <2>1, <2>2, <2>3 DEF WorkInv, At
  <1>15. PairInv'
    BY <1>1, <1>6 DEF IInv, PairInv, At, Directions
  <1>16. FoundInv'
    BY <1>5 DEF FoundInv, Attended
  <1>17. StopInv' /\ PnpInv'
    <2>1. ~NoRoutines
      BY <1>1, <1>7 DEF NoRoutines
    <2>2. StopInv /\ PnpInv
      BY DEF IInv
    <2>3. purge.step \notin {"flush", "publish"}
      BY <2>1, <2>2 DEF StopInv
    <2>4. overtaken <= overtaken'
      BY <1>1, <1>2 DEF Types
    <2>5. AllAllocated(ctx) => AllAllocated(ctx')
      BY <1>6 DEF AllAllocated, State, Requests
    <2> QED BY <1>1, <1>2, <1>5, <1>6, <1>9, <2>1, <2>2, <2>3, <2>4, <2>5, BusyHolds DEF Quiet, Words
  <1> QED BY <1>9, <1>10, <1>11, <1>12, <1>13, <1>14, <1>15, <1>16, <1>17 DEF IInv, Core

(***************************************************************************)
(* The steps of a worker that touch no slot                                *)
(***************************************************************************)
LEMMA WorkerIs ==
    ASSUME Types, NEW w \in Workers, NEW pc \in Places, NEW slot \in 0 .. SlotCount,
           Worker(w, pc, slot)
    PROVE  /\ workers' \in [Workers -> [pc : Places, slot : 0 .. SlotCount]]
           /\ workers'[w].pc = pc /\ workers'[w].slot = slot
           /\ \A v \in Workers : v # w => workers'[v] = workers[v]
  BY DEF Types, Worker

LEMMA FoundSame ==
    ASSUME NEW d \in Directions, ctx'.slots = ctx.slots, ctx'.order = ctx.order
    PROVE  Found(ctx', d) <=> Found(ctx, d)
  BY DEF Found

LEMMA PairSame ==
    ASSUME PairInv, NEW w \in Workers,
           workers[w].pc \notin {"sendOutput", "resubmit"},
           workers'[w].pc \notin {"sendOutput", "resubmit"},
           \A v \in Workers : v # w => workers'[v] = workers[v],
           \A d \in Directions, i \in Slots :
              State(ctx', d, i) = "Processing" <=> State(ctx, d, i) = "Processing"
    PROVE  PairInv'
  <1>1. \A v \in Workers :
          /\ workers'[v].pc \in {"sendOutput", "resubmit"}
               <=> workers[v].pc \in {"sendOutput", "resubmit"}
          /\ workers'[v].pc = "sendOutput" <=> workers[v].pc = "sendOutput"
          /\ workers[v].pc \in {"sendOutput", "resubmit"} => workers'[v].slot = workers[v].slot
    OBVIOUS
  <1>2. "capture" \in Directions /\ "output" \in Directions
    BY DEF Directions
  <1> QED BY <1>1, <1>2 DEF PairInv, At

\* Only the flags of the work item change.
LEMMA FlagsHold ==
    ASSUME IInv, Types', ctx' \in Contexts, Words(ctx') = Words(ctx), Rest(ctx') = Rest(ctx),
           ctx'.slots = ctx.slots, ctx'.order = ctx.order, ctx'.outstanding = ctx.outstanding,
           UNCHANGED <<bus, routines, purge, threads, overtaken>>, ~ProcessIdle
    PROVE  /\ Core(ctx', bus', routines', overtaken') /\ OrderOk(ctx')
           /\ StopInv' /\ PnpInv'
  <1>1. \A d \in Directions, i \in Slots : State(ctx', d, i) = State(ctx, d, i)
    BY DEF State
  <1>2. Core(ctx, bus, routines, overtaken) /\ OrderOk(ctx) /\ StopInv /\ PnpInv /\ Types
    BY DEF IInv
  <1>3. Follows(ctx', ctx)
    <2>1. ctx.gen \in Nat
      BY <1>2 DEF Core, CtxOk, Contexts
    <2> QED BY <1>1, <1>2, <2>1 DEF Follows, Core, CtxOk, Words, Rest
  <1>4. Core(ctx', bus', routines', overtaken')
    BY <1>2, <1>3, CoreFollows
  <1>5. OrderOk(ctx')
    <2>1. \A d \in Directions : LiveSlots(ctx', d) = LiveSlots(ctx, d)
      BY <1>1 DEF LiveSlots
    <2> QED BY <1>2, <2>1 DEF OrderOk, Words
  <1>6. AllAllocated(ctx) => AllAllocated(ctx')
    BY DEF AllAllocated
  <1>7. ~Quiet /\ purge.step # "publish"
    BY <1>2 DEF Quiet, StopInv
  <1>8. purge.step = "flush" => bus' = {} /\ NoRoutines'
    BY <1>2 DEF StopInv, NoRoutines
  <1>9. overtaken <= overtaken'
    BY <1>2 DEF Types
  <1>10. StopInv' /\ PnpInv'
    BY <1>1, <1>2, <1>6, <1>7, <1>8, <1>9, BusyHolds DEF Words
  <1> QED BY <1>4, <1>5, <1>10

LEMMA DispatchHolds ==
    ASSUME IInv, NEW w \in Workers, Dispatch(w)
    PROVE  IInv'
  <1>1. /\ At(w, "idle") /\ ctx.queued
        /\ ctx' = [ctx EXCEPT !.queued = FALSE, !.active = TRUE]
        /\ Worker(w, IF ctx.active THEN "idle" ELSE "clear", 0)
        /\ UNCHANGED <<bus, routines, purge, threads, bound, overtaken, lock>>
    BY DEF Dispatch, OnlyContext
  <1>2. Types /\ WorkInv /\ PairInv /\ FoundInv /\ ctx \in Contexts
    BY DEF IInv, Core, CtxOk
  <1>3. /\ ctx' \in Contexts /\ Words(ctx') = Words(ctx) /\ Rest(ctx') = Rest(ctx)
        /\ ctx'.slots = ctx.slots /\ ctx'.order = ctx.order /\ ctx'.outstanding = ctx.outstanding
        /\ ctx'.active /\ ~ctx'.queued /\ ctx'.pending = ctx.pending
    BY <1>1, <1>2 DEF Contexts, Words, Rest
  <1>4. /\ workers' \in [Workers -> [pc : Places, slot : 0 .. SlotCount]]
        /\ workers'[w].pc = IF ctx.active THEN "idle" ELSE "clear"
        /\ \A v \in Workers : v # w => workers'[v] = workers[v]
    BY <1>1, <1>2, EngineConstants, WorkerIs DEF Places, Working, Looking
  <1>5. Types'
    BY <1>1, <1>2, <1>4 DEF Types
  <1>6. ~ProcessIdle
    BY <1>1 DEF ProcessIdle
  <1>7. Core(ctx', bus', routines', overtaken') /\ OrderOk(ctx') /\ StopInv' /\ PnpInv'
    BY <1>1, <1>3, <1>5, <1>6, FlagsHold
  <1>8. WorkInv'
    <2>1. CASE ctx.active
      <3>1. \A v \in Workers : workers'[v].pc = workers[v].pc
        BY <1>1, <1>4, <2>1 DEF At
      <3>2. \E v \in Workers : workers[v].pc \in Working
        BY <1>2, <2>1 DEF WorkInv
      <3>3. \E v \in Workers : workers[v].pc # "idle"
        BY <3>2 DEF Working, Looking, Capturing
      <3> QED BY <1>1, <1>2, <1>3, <3>1, <3>2, <3>3 DEF WorkInv, At
    <2>2. CASE ~ctx.active
      <3>1. workers'[w].pc = "clear" /\ workers[w].pc = "idle"
        BY <1>1, <1>4, <2>2 DEF At
      <3>2. \A v \in Workers : workers[v].pc \notin Working
        BY <1>2, <2>2 DEF WorkInv
      <3>3. "clear" \in Working /\ "clear" \notin Locked /\ "idle" \notin Locked
        BY DEF Working, Looking, Capturing, Locked
      <3> QED BY <1>1, <1>2, <1>3, <1>4, <3>1, <3>2, <3>3 DEF WorkInv, At
    <2> QED BY <2>1, <2>2
  <1>9. PairInv'
    BY <1>1, <1>2, <1>3, <1>4, PairSame DEF At, State
  <1>10. FoundInv'
    <2> SUFFICES ASSUME NEW d \in Directions, Found(ctx', d) PROVE Attended(d)'
      BY DEF FoundInv
    <2>1. Attended(d)
      BY <1>2, <1>3, FoundSame DEF FoundInv
    <2>2. CASE ~ctx.active
      BY <1>4, <2>2 DEF Attended, Looking
    <2>3. CASE ctx.active
      <3>1. \A v \in Workers : workers'[v].pc = workers[v].pc
        BY <1>1, <1>4, <2>3 DEF At
      <3> QED BY <1>1, <1>3, <2>1, <2>3, <3>1 DEF Attended, NoRoutines
    <2> QED BY <2>2, <2>3
  <1> QED BY <1>5, <1>7, <1>8, <1>9, <1>10 DEF IInv

LEMMA ClearPendingHolds ==
    ASSUME IInv, NEW w \in Workers, ClearPending(w)
    PROVE  IInv'
  <1>1. /\ workers[w].pc = "clear"
        /\ ctx' = [ctx EXCEPT !.pending = FALSE]
        /\ Worker(w, "lock", 0)
        /\ UNCHANGED <<bus, routines, purge, threads, bound, overtaken, lock>>
    BY DEF ClearPending, OnlyContext, At
  <1>2. Types /\ WorkInv /\ PairInv /\ FoundInv /\ ctx \in Contexts
    BY DEF IInv, Core, CtxOk
  <1>3. /\ ctx' \in Contexts /\ Words(ctx') = Words(ctx) /\ Rest(ctx') = Rest(ctx)
        /\ ctx'.slots = ctx.slots /\ ctx'.order = ctx.order /\ ctx'.outstanding = ctx.outstanding
        /\ ctx'.active = ctx.active /\ ctx'.queued = ctx.queued /\ ~ctx'.pending
    BY <1>1, <1>2 DEF Contexts, Words, Rest
  <1>4. /\ workers' \in [Workers -> [pc : Places, slot : 0 .. SlotCount]]
        /\ workers'[w].pc = "lock"
        /\ \A v \in Workers : v # w => workers'[v] = workers[v]
    <2>1. "lock" \in Places /\ 0 \in 0 .. SlotCount
      BY EngineConstants DEF Places, Working, Looking
    <2> QED BY <1>1, <1>2, <2>1, WorkerIs
  <1>5. Types'
    BY <1>1, <1>2, <1>4 DEF Types
  <1>6. ~ProcessIdle
    BY <1>1 DEF ProcessIdle, At
  <1>7. Core(ctx', bus', routines', overtaken') /\ OrderOk(ctx') /\ StopInv' /\ PnpInv'
    BY <1>1, <1>3, <1>5, <1>6, FlagsHold
  <1>8. WorkInv'
    <2>1. \A v \in Workers : workers'[v].pc \in Working <=> workers[v].pc \in Working
      BY <1>1, <1>4 DEF Working, Looking
    <2>2. \A v \in Workers : workers'[v].pc \in Locked <=> workers[v].pc \in Locked
      BY <1>1, <1>4 DEF Locked, Capturing
    <2> QED BY <1>1, <1>2, <1>3, <2>1, <2>2 DEF WorkInv
  <1>9. PairInv'
    BY <1>1, <1>2, <1>3, <1>4, PairSame DEF State
  <1>10. FoundInv'
    BY <1>4 DEF FoundInv, Attended, Looking
  <1> QED BY <1>5, <1>7, <1>8, <1>9, <1>10 DEF IInv

LEMMA AcquireTransportHolds ==
    ASSUME IInv, NEW w \in Workers, AcquireTransport(w)
    PROVE  IInv'
  <1>1. /\ workers[w].pc = "lock" /\ lock = "none" /\ lock' = w
        /\ Worker(w, "output", 0)
        /\ UNCHANGED <<bus, routines, purge, threads, bound, overtaken, ctx>>
    BY DEF AcquireTransport, OnlyContext, At
  <1>2. Types /\ WorkInv /\ PairInv /\ FoundInv /\ ctx \in Contexts
    BY DEF IInv, Core, CtxOk
  <1>3. /\ ctx' \in Contexts /\ Words(ctx') = Words(ctx) /\ Rest(ctx') = Rest(ctx)
        /\ ctx' = ctx
    BY <1>1, <1>2
  <1>4. /\ workers' \in [Workers -> [pc : Places, slot : 0 .. SlotCount]]
        /\ workers'[w].pc = "output"
        /\ \A v \in Workers : v # w => workers'[v] = workers[v]
    BY <1>1, <1>2, EngineConstants, WorkerIs DEF Places, Working, Looking
  <1>5. Types'
    BY <1>1, <1>2, <1>4 DEF Types
  <1>6. ~ProcessIdle
    BY <1>1 DEF ProcessIdle, At
  <1>7. Core(ctx', bus', routines', overtaken') /\ OrderOk(ctx') /\ StopInv' /\ PnpInv'
    BY <1>1, <1>3, <1>5, <1>6, FlagsHold
  <1>8. WorkInv'
    <2>1. \A v \in Workers : workers'[v].pc \in Working <=> workers[v].pc \in Working
      BY <1>1, <1>4 DEF Working, Looking
    <2>2. \A v \in Workers : v # w => lock # v /\ lock' # v
      BY <1>1, WorkersApart
    <2>3. \A v \in Workers : lock' = v <=> workers'[v].pc \in Locked
      BY <1>1, <1>2, <1>4, <2>2 DEF WorkInv, Locked
    <2>4. lock' # "purge" /\ purge'.step # "target"
      BY <1>1, <1>2, WorkersApart DEF WorkInv
    <2>5. \A v \in Workers : workers'[v].pc = "idle" <=> workers[v].pc = "idle"
      BY <1>1, <1>4
    <2> QED BY <1>1, <1>2, <1>3, <2>1, <2>3, <2>4, <2>5 DEF WorkInv, At
  <1>9. PairInv'
    BY <1>1, <1>2, <1>3, <1>4, PairSame
  <1>10. FoundInv'
    BY <1>4 DEF FoundInv, Attended, Looking
  <1> QED BY <1>5, <1>7, <1>8, <1>9, <1>10 DEF IInv

LEMMA NoOutputHolds ==
    ASSUME IInv, NEW w \in Workers, ProcessOutput(w), ~Found(ctx, "output")
    PROVE  IInv'
  <1>1. /\ workers[w].pc = "output"
        /\ Worker(w, "capture", 0)
        /\ UNCHANGED <<bus, routines, purge, threads, bound, overtaken, lock, ctx>>
    BY DEF ProcessOutput, OnlyContext, At
  <1>2. Types /\ WorkInv /\ PairInv /\ FoundInv /\ ctx \in Contexts
    BY DEF IInv, Core, CtxOk
  <1>3. /\ ctx' \in Contexts /\ Words(ctx') = Words(ctx) /\ Rest(ctx') = Rest(ctx)
        /\ ctx' = ctx
    BY <1>1, <1>2
  <1>4. /\ workers' \in [Workers -> [pc : Places, slot : 0 .. SlotCount]]
        /\ workers'[w].pc = "capture"
        /\ \A v \in Workers : v # w => workers'[v] = workers[v]
    BY <1>1, <1>2, EngineConstants, WorkerIs DEF Places, Working, Capturing
  <1>5. Types'
    BY <1>1, <1>2, <1>4 DEF Types
  <1>6. ~ProcessIdle
    BY <1>1 DEF ProcessIdle, At
  <1>7. Core(ctx', bus', routines', overtaken') /\ OrderOk(ctx') /\ StopInv' /\ PnpInv'
    BY <1>1, <1>3, <1>5, <1>6, FlagsHold
  <1>8. WorkInv'
    <2>1. \A v \in Workers : workers'[v].pc \in Working <=> workers[v].pc \in Working
      BY <1>1, <1>4 DEF Working, Looking, Capturing
    <2>2. \A v \in Workers : workers'[v].pc \in Locked <=> workers[v].pc \in Locked
      BY <1>1, <1>4 DEF Locked, Capturing
    <2>3. \A v \in Workers : workers'[v].pc = "idle" <=> workers[v].pc = "idle"
      BY <1>1, <1>4
    <2> QED BY <1>1, <1>2, <1>3, <2>1, <2>2, <2>3 DEF WorkInv, At
  <1>9. PairInv'
    BY <1>1, <1>2, <1>3, <1>4, PairSame
  <1>10. FoundInv'
    <2>1. Attended("capture")'
      BY <1>4 DEF Attended, Capturing
    <2> QED BY <1>3, <2>1 DEF FoundInv, Directions
  <1> QED BY <1>5, <1>7, <1>8, <1>9, <1>10 DEF IInv

LEMMA ReleaseTransportHolds ==
    ASSUME IInv, NEW w \in Workers, ReleaseTransport(w)
    PROVE  IInv'
  <1>1. /\ workers[w].pc = "capture" /\ ~Found(ctx, "capture") /\ lock' = "none"
        /\ Worker(w, IF ctx.pending THEN "clear" ELSE "finish", 0)
        /\ UNCHANGED <<bus, routines, purge, threads, bound, overtaken, ctx>>
    BY DEF ReleaseTransport, OnlyContext, At
  <1>2. Types /\ WorkInv /\ PairInv /\ FoundInv /\ ctx \in Contexts
    BY DEF IInv, Core, CtxOk
  <1>3. /\ ctx' \in Contexts /\ Words(ctx') = Words(ctx) /\ Rest(ctx') = Rest(ctx)
        /\ ctx' = ctx
    BY <1>1, <1>2
  <1>4. /\ workers' \in [Workers -> [pc : Places, slot : 0 .. SlotCount]]
        /\ workers'[w].pc = IF ctx.pending THEN "clear" ELSE "finish"
        /\ \A v \in Workers : v # w => workers'[v] = workers[v]
    BY <1>1, <1>2, EngineConstants, WorkerIs DEF Places, Working, Looking
  <1>5. Types'
    BY <1>1, <1>2, <1>4 DEF Types
  <1>6. ~ProcessIdle
    BY <1>1 DEF ProcessIdle, At
  <1>7. Core(ctx', bus', routines', overtaken') /\ OrderOk(ctx') /\ StopInv' /\ PnpInv'
    BY <1>1, <1>3, <1>5, <1>6, FlagsHold
  <1>8. WorkInv'
    <2>1. \A v \in Workers : workers'[v].pc \in Working <=> workers[v].pc \in Working
      BY <1>1, <1>4 DEF Working, Looking, Capturing
    <2>2. lock = w
      BY <1>1, <1>2 DEF WorkInv, Locked, Capturing
    <2>3. \A v \in Workers : workers'[v].pc \notin Locked
      BY <1>1, <1>2, <1>4, <2>2 DEF WorkInv, Locked, Capturing
    <2>4. purge'.step # "target" /\ \A v \in Workers : lock' # v
      BY <1>1, <1>2, <2>2, WorkersApart DEF WorkInv
    <2>5. \A v \in Workers : workers'[v].pc = "idle" <=> workers[v].pc = "idle"
      BY <1>1, <1>4
    <2> QED BY <1>1, <1>2, <1>3, <2>1, <2>3, <2>4, <2>5 DEF WorkInv, At
  <1>9. PairInv'
    BY <1>1, <1>2, <1>3, <1>4, PairSame
  <1>10. FoundInv'
    <2>1. CASE ctx.pending
      BY <1>4, <2>1 DEF FoundInv, Attended, Looking
    <2>2. CASE ~ctx.pending
      <3>1. ctx.active /\ \A v \in Workers : v # w => workers[v].pc \notin Working
        BY <1>1, <1>2 DEF WorkInv, Working, Capturing
      <3>2. \A v \in Workers : workers[v].pc \notin Looking
        BY <1>1, <3>1 DEF Working, Looking
      <3>3. Found(ctx, "output") => ~NoRoutines
        BY <1>2, <2>2, <3>1, <3>2 DEF FoundInv, Attended, Directions
      <3> QED BY <1>1, <1>3, <3>3 DEF FoundInv, Attended, Directions, NoRoutines
    <2> QED BY <2>1, <2>2
  <1> QED BY <1>5, <1>7, <1>8, <1>9, <1>10 DEF IInv

LEMMA FinishProcessHolds ==
    ASSUME IInv, NEW w \in Workers, FinishProcess(w)
    PROVE  IInv'
  <1>1. /\ workers[w].pc = "finish" /\ lock = "none"
        /\ ctx' = [ctx EXCEPT !.active = FALSE]
        /\ Worker(w, "recheck", 0)
        /\ UNCHANGED <<bus, routines, purge, threads, bound, overtaken, lock>>
    BY DEF FinishProcess, OnlyContext, At
  <1>2. Types /\ WorkInv /\ PairInv /\ FoundInv /\ ctx \in Contexts
    BY DEF IInv, Core, CtxOk
  <1>3. /\ ctx' \in Contexts /\ Words(ctx') = Words(ctx) /\ Rest(ctx') = Rest(ctx)
        /\ ctx'.slots = ctx.slots /\ ctx'.order = ctx.order /\ ctx'.outstanding = ctx.outstanding
        /\ ~ctx'.active /\ ctx'.queued = ctx.queued /\ ctx'.pending = ctx.pending
    BY <1>1, <1>2 DEF Contexts, Words, Rest
  <1>4. /\ workers' \in [Workers -> [pc : Places, slot : 0 .. SlotCount]]
        /\ workers'[w].pc = "recheck"
        /\ \A v \in Workers : v # w => workers'[v] = workers[v]
    BY <1>1, <1>2, EngineConstants, WorkerIs DEF Places
  <1>5. Types'
    BY <1>1, <1>2, <1>4 DEF Types
  <1>6. ~ProcessIdle
    BY <1>1 DEF ProcessIdle, At
  <1>7. Core(ctx', bus', routines', overtaken') /\ OrderOk(ctx') /\ StopInv' /\ PnpInv'
    BY <1>1, <1>3, <1>5, <1>6, FlagsHold
  <1>8. ctx.active /\ \A v \in Workers : v # w => workers[v].pc \notin Working
    BY <1>1, <1>2 DEF WorkInv, Working
  <1>9. WorkInv'
    <2>1. \A v \in Workers : workers'[v].pc \notin Working
      BY <1>4, <1>8 DEF Working, Looking, Capturing
    <2>2. \A v \in Workers : workers'[v].pc \in Locked <=> workers[v].pc \in Locked
      BY <1>1, <1>4 DEF Locked, Capturing
    <2>3. \E v \in Workers : workers'[v].pc # "idle"
      BY <1>4
    <2> QED BY <1>1, <1>2, <1>3, <2>1, <2>2, <2>3 DEF WorkInv, At
  <1>10. PairInv'
    BY <1>1, <1>2, <1>3, <1>4, PairSame DEF State
  <1>11. FoundInv'
    <2> SUFFICES ASSUME NEW d \in Directions, Found(ctx', d) PROVE Attended(d)'
      BY DEF FoundInv
    <2>1. Attended(d)
      BY <1>2, <1>3, FoundSame DEF FoundInv
    <2>2. \A v \in Workers : workers[v].pc \notin Looking \cup Capturing
      BY <1>1, <1>8 DEF Working, Looking, Capturing
    <2>3. ~NoRoutines \/ ctx.pending
      BY <1>8, <2>1, <2>2 DEF Attended
    <2> QED BY <1>1, <1>3, <1>4, <2>3 DEF Attended, NoRoutines, At
  <1> QED BY <1>5, <1>7, <1>9, <1>10, <1>11 DEF IInv

LEMMA RecheckPendingHolds ==
    ASSUME IInv, NEW w \in Workers, RecheckPending(w)
    PROVE  IInv'
  <1>1. /\ workers[w].pc = "recheck"
        /\ ctx' = [ctx EXCEPT !.queued = @ \/ ctx.pending]
        /\ Worker(w, "idle", 0)
        /\ UNCHANGED <<bus, routines, purge, threads, bound, overtaken, lock>>
    BY DEF RecheckPending, RequeuePending, OnlyContext, At
  <1>2. Types /\ WorkInv /\ PairInv /\ FoundInv /\ ctx \in Contexts
    BY DEF IInv, Core, CtxOk
  <1>3. /\ ctx' \in Contexts /\ Words(ctx') = Words(ctx) /\ Rest(ctx') = Rest(ctx)
        /\ ctx'.slots = ctx.slots /\ ctx'.order = ctx.order /\ ctx'.outstanding = ctx.outstanding
        /\ ctx'.active = ctx.active /\ ctx'.pending = ctx.pending
        /\ ctx'.queued <=> ctx.queued \/ ctx.pending
    <2> DEFINE q == ctx.queued \/ ctx.pending
    <2>1. ctx' = [ctx EXCEPT !.queued = q] /\ q \in BOOLEAN
      BY <1>1
    <2>2. ctx'.queued <=> q
      BY <1>2, <2>1 DEF Contexts
    <2> HIDE DEF q
    <2>3. /\ ctx' \in Contexts /\ Words(ctx') = Words(ctx) /\ Rest(ctx') = Rest(ctx)
          /\ ctx'.slots = ctx.slots /\ ctx'.order = ctx.order /\ ctx'.outstanding = ctx.outstanding
          /\ ctx'.active = ctx.active /\ ctx'.pending = ctx.pending
      BY <1>2, <2>1 DEF Contexts, Words, Rest
    <2> QED BY <2>2, <2>3 DEF q
  <1>4. /\ workers' \in [Workers -> [pc : Places, slot : 0 .. SlotCount]]
        /\ workers'[w].pc = "idle"
        /\ \A v \in Workers : v # w => workers'[v] = workers[v]
    BY <1>1, <1>2, EngineConstants, WorkerIs DEF Places
  <1>5. Types'
    BY <1>1, <1>2, <1>4 DEF Types
  <1>6. ~ProcessIdle
    BY <1>1 DEF ProcessIdle, At
  <1>7. Core(ctx', bus', routines', overtaken') /\ OrderOk(ctx') /\ StopInv' /\ PnpInv'
    BY <1>1, <1>3, <1>5, <1>6, FlagsHold
  <1>8. WorkInv'
    <2>1. \A v \in Workers : workers'[v].pc \in Working <=> workers[v].pc \in Working
      BY <1>1, <1>4 DEF Working, Looking, Capturing
    <2>2. \A v \in Workers : workers'[v].pc \in Locked <=> workers[v].pc \in Locked
      BY <1>1, <1>4 DEF Locked, Capturing
    <2> QED BY <1>1, <1>2, <1>3, <2>1, <2>2 DEF WorkInv, At
  <1>9. PairInv'
    BY <1>1, <1>2, <1>3, <1>4, PairSame DEF State
  <1>10. FoundInv'
    <2> SUFFICES ASSUME NEW d \in Directions, Found(ctx', d) PROVE Attended(d)'
      BY DEF FoundInv
    <2>1. Attended(d)
      BY <1>2, <1>3, FoundSame DEF FoundInv
    <2>2. \A v \in Workers :
             /\ workers'[v].pc \in Looking <=> workers[v].pc \in Looking
             /\ workers'[v].pc \in Capturing <=> workers[v].pc \in Capturing
      BY <1>1, <1>4 DEF Looking, Capturing
    <2> QED BY <1>1, <1>3, <2>1, <2>2 DEF Attended, NoRoutines
  <1> QED BY <1>5, <1>7, <1>8, <1>9, <1>10 DEF IInv

(***************************************************************************)
(* The steps of the worker that holds the lock                             *)
(***************************************************************************)
HeldStep(w) ==
    /\ workers[w].pc \in Locked /\ workers'[w].pc \in Locked
    /\ workers'[w].pc = "output" \/
         (workers[w].pc \in Capturing /\ (Found(ctx', "output") => Found(ctx, "output") \/ ctx'.pending))
    /\ \A v \in Workers : v # w => workers'[v] = workers[v]
    /\ routines' = routines /\ lock' = lock /\ purge' = purge /\ threads' = threads
    /\ Rest(ctx') = Rest(ctx) /\ ctx'.active = ctx.active /\ (ctx.pending => ctx'.pending)
    /\ ctx'.state \in {ctx.state, "Stopping"}
    /\ overtaken <= overtaken'
    /\ bus' = bus \/ ctx.state = "Running"
    /\ \E d \in Directions, i \in Slots : State(ctx, d, i) \in {"Submitted", "Completed", "Processing"}
    /\ \A d \in Directions, i \in Slots :
          State(ctx', d, i) = "Uninitialized" => State(ctx, d, i) = "Uninitialized"

LEMMA HeldHolds ==
    ASSUME IInv, NEW w \in Workers, HeldStep(w), Types',
           Core(ctx', bus', routines', overtaken'), OrderOk(ctx'), PairInv'
    PROVE  IInv'
  <1>1. WorkInv /\ FoundInv /\ StopInv /\ PnpInv /\ Types
    BY DEF IInv
  <1>2. ctx.active /\ \A v \in Workers : v # w => workers[v].pc \notin Working
    BY <1>1 DEF WorkInv, HeldStep, Working, Locked, Looking
  <1>3. \A v \in Workers : workers'[v].pc \in Working <=> workers[v].pc \in Working
    BY DEF HeldStep, Working, Locked, Looking
  <1>4. \A v \in Workers : workers'[v].pc \in Locked <=> workers[v].pc \in Locked
    BY DEF HeldStep
  <1>5. workers'[w].pc # "idle" /\ workers[w].pc # "idle"
    BY DEF HeldStep, Locked, Capturing
  <1>6. WorkInv'
    BY <1>1, <1>3, <1>4, <1>5 DEF WorkInv, HeldStep, At
  <1>7. FoundInv'
    <2>1. CASE workers'[w].pc = "output"
      BY <2>1 DEF FoundInv, Attended, Looking
    <2>2. CASE /\ workers'[w].pc # "output" /\ workers[w].pc \in Capturing
               /\ Found(ctx', "output") => Found(ctx, "output") \/ ctx'.pending
      <3>1. workers'[w].pc \in Capturing
        BY <2>2 DEF HeldStep, Locked
      <3>2. \A v \in Workers : workers[v].pc \notin Looking
        BY <1>2, <2>2 DEF Working, Looking, Capturing
      <3>3. Found(ctx, "output") => ~NoRoutines \/ ctx.pending
        BY <1>1, <1>2, <3>2 DEF FoundInv, Attended, Directions
      <3>4. Found(ctx', "output") => ~NoRoutines' \/ (ctx'.pending /\ ctx'.active)
        BY <1>2, <2>2, <3>3 DEF HeldStep, NoRoutines
      <3> QED BY <3>1, <3>4 DEF FoundInv, Attended, Directions
    <2> QED BY <2>1, <2>2 DEF HeldStep
  <1>8. AllAllocated(ctx)
    BY <1>1 DEF HeldStep, StopInv, NoneLive
  <1>9. AllAllocated(ctx')
    BY <1>8 DEF HeldStep, AllAllocated, State, Requests
  <1>10. ~ProcessIdle
    BY <1>5 DEF ProcessIdle, At
  <1>11. ~Quiet /\ purge.step # "publish"
    BY <1>1, <1>10 DEF Quiet, StopInv
  <1>12. purge.step = "flush" => bus' = {} /\ NoRoutines'
    BY <1>1 DEF StopInv, HeldStep, NoRoutines
  <1>13. StopInv' /\ PnpInv'
    BY <1>1, <1>8, <1>9, <1>11, <1>12, BusyHolds DEF HeldStep
  <1> QED BY <1>6, <1>7, <1>13 DEF IInv

\* The slot that a worker finds.
LEMMA FoundIs ==
    ASSUME NEW c \in Contexts, NEW d \in Directions, Found(c, d)
    PROVE  /\ c.order[d] \in Seq(Slots) /\ c.order[d] # <<>>
           /\ Head(c.order[d]) \in Slots /\ State(c, d, Head(c.order[d])) = "Completed"
           /\ Tail(c.order[d]) \in Seq(Slots)
           /\ d = "capture" => State(c, "output", Head(c.order[d])) = "Idle"
  <1>1. c.order[d] \in Seq(Slots)
    BY DEF Contexts
  <1>2. c.order[d] # <<>> /\ State(c, d, Head(c.order[d])) = "Completed"
    BY DEF Found, State
  <1>3. Head(c.order[d]) \in Slots /\ Tail(c.order[d]) \in Seq(Slots)
    BY <1>1, <1>2
  <1> QED BY <1>1, <1>2, <1>3 DEF Found, State

\* A completed output is judged and free again.
LEMMA ProcessOutputHolds ==
    ASSUME IInv, NEW w \in Workers, ProcessOutput(w), Found(ctx, "output")
    PROVE  IInv'
  <1> DEFINE q == ctx.order["output"]
             i == Head(q)
             a == Ordered(ctx, "output", Tail(q))
             b == Judged(a, "output", i)
  <1>1. /\ workers[w].pc = "output" /\ workers' = workers
        /\ ctx' = WithState(b, "output", i, "Idle")
        /\ UNCHANGED <<bus, routines, purge, threads, bound, overtaken, lock>>
    BY DEF ProcessOutput, OnlyContext, At, Ordered
  <1>2. /\ Types /\ Types' /\ OrderOk(ctx) /\ ctx \in Contexts /\ CtxOk(ctx)
        /\ Core(ctx, bus, routines, overtaken) /\ PairInv /\ StopInv
    BY <1>1 DEF IInv, Core, CtxOk, Types
  <1>3. /\ q \in Seq(Slots) /\ q # <<>> /\ i \in Slots /\ State(ctx, "output", i) = "Completed"
        /\ Tail(q) \in Seq(Slots) /\ "output" \in Directions /\ "capture" \in Directions
    BY <1>2, FoundIs DEF Directions
  <1>4. /\ a \in Contexts /\ Follows(a, ctx)
        /\ Words(a) = Words(ctx) /\ Rest(a) = Rest(ctx) /\ Items(a) = Items(ctx)
        /\ a.slots = ctx.slots /\ a.order["output"] = Tail(q)
        /\ \A f \in Directions : f # "output" => a.order[f] = ctx.order[f]
    <2> DEFINE s == Tail(q)
               g == Ordered(ctx, "output", s)
    <2>1. s \in Seq(Slots) /\ a = g
      BY <1>3
    <2> HIDE DEF q, a, s
    <2>2. ctx \in Contexts /\ "output" \in Directions /\ s \in Seq(Slots)
      BY <1>2, <1>3, <2>1
    <2>4. g.slots = ctx.slots
      BY <2>2, OrderIs
    <2>5. g.order["output"] = s
      BY <2>2, OrderIs
    <2>6. \A f \in Directions : f # "output" => g.order[f] = ctx.order[f]
      BY <2>2, OrderIs
    <2>7. Words(g) = Words(ctx) /\ Rest(g) = Rest(ctx) /\ Items(g) = Items(ctx)
      BY <2>2, OrderIs
    <2>8. g \in Contexts
      BY <2>2, OrderIs
    <2>3. Follows(g, ctx)
      BY <1>2, <1>3, <2>1, OrderFollows
    <2> HIDE DEF g
    <2> QED BY <2>1, <2>3, <2>4, <2>5, <2>6, <2>7, <2>8 DEF s
  <1> HIDE DEF a
  <1>5. Core(a, bus, routines, overtaken) /\ CtxOk(a)
    BY <1>2, <1>4, CoreFollows DEF Core
  <1>6. a.state # "Stopped"
    <2>1. ctx.state # "Stopped"
      BY <1>1, <1>2 DEF StopInv, Quiet, ProcessIdle, At
    <2> QED BY <1>4, <2>1 DEF Words
  <1>7. /\ Follows(b, a)
        /\ \A f \in Directions, j \in Slots : State(b, f, j) = State(a, f, j)
        /\ b.order = a.order /\ Items(b) = Items(a) /\ Rest(b) = Rest(a)
        /\ Words(b) = Words(a) \/ (b.state = "Stopping" /\ ~b.running)
    <2> HIDE DEF i
    <2> QED BY <1>3, <1>5, <1>6, JudgedIs
  <1>8. Core(b, bus, routines, overtaken) /\ CtxOk(b) /\ b \in Contexts
    BY <1>5, <1>7, CoreFollows DEF Core, CtxOk
  <1>9. State(b, "output", i) = "Completed"
    BY <1>3, <1>4, <1>7 DEF State
  <1> HIDE DEF b, i
  <1>10. /\ Words(ctx') = Words(b) /\ Rest(ctx') = Rest(b) /\ Items(ctx') = Items(b)
         /\ ctx'.order = b.order /\ State(ctx', "output", i) = "Idle"
         /\ \A f \in Directions, j \in Slots :
               (f # "output" \/ j # i) => ctx'.slots[f][j] = b.slots[f][j]
    <2>1. "Idle" \in States
      BY DEF States
    <2> DEFINE z == WithState(b, "output", i, "Idle")
    <2>2. /\ Words(z) = Words(b) /\ Rest(z) = Rest(b) /\ Items(z) = Items(b)
          /\ z.order = b.order /\ State(z, "output", i) = "Idle"
          /\ \A f \in Directions, j \in Slots :
                (f # "output" \/ j # i) => z.slots[f][j] = b.slots[f][j]
      BY <1>3, <1>8, <2>1, WithStateIs
    <2>3. ctx' = z
      BY <1>1
    <2> HIDE DEF z
    <2> QED BY <2>2, <2>3
  <1>11. Follows(ctx', b)
    BY <1>1, <1>3, <1>8, <1>9, WithStateFollows DEF States
  <1>12. Core(ctx', bus', routines', overtaken')
    BY <1>1, <1>8, <1>11, CoreFollows
  <1>13. \A f \in Directions, j \in Slots :
            State(ctx', f, j) = IF f = "output" /\ j = i THEN "Idle" ELSE State(ctx, f, j)
    BY <1>4, <1>7, <1>10 DEF State
  <1>14. OrderOk(ctx')
    <2>1. InOrder(Tail(q), LiveSlots(ctx, "output") \ {i}, ctx.running)
      <3>1. InOrder(q, LiveSlots(ctx, "output"), ctx.running)
        BY <1>2, <1>3 DEF OrderOk
      <3> HIDE DEF q
      <3> QED BY <1>3, <3>1, OrderTail DEF i
    <2>2. LiveSlots(ctx', "output") = LiveSlots(ctx, "output") \ {i}
      BY <1>3, <1>13 DEF LiveSlots, Live
    <2>3. LiveSlots(ctx', "capture") = LiveSlots(ctx, "capture")
      BY <1>3, <1>13 DEF LiveSlots
    <2>4. ctx'.running => ctx.running
      BY <1>4, <1>7, <1>10 DEF Words
    <2>5. ctx'.order["output"] = Tail(q) /\ ctx'.order["capture"] = ctx.order["capture"]
      BY <1>3, <1>4, <1>7, <1>10
    <2>6. InOrder(ctx.order["capture"], LiveSlots(ctx, "capture"), ctx.running)
      BY <1>2, <1>3 DEF OrderOk
    <2> QED BY <2>1, <2>2, <2>3, <2>4, <2>5, <2>6, OrderKept DEF OrderOk, Directions
  <1>15. PairInv'
    <2>1. \A f \in Directions, j \in Slots : State(ctx', f, j) = "Processing" <=> State(ctx, f, j) = "Processing"
      BY <1>3, <1>13
    <2> QED BY <1>1, <1>2, <2>1, PairSame
  <1>16. HeldStep(w)
    <2>1. ctx'.state \in {ctx.state, "Stopping"}
      BY <1>4, <1>7, <1>10 DEF Words
    <2>2. overtaken <= overtaken'
      BY <1>1, <1>2 DEF Types
    <2>3. Rest(ctx') = Rest(ctx) /\ ctx'.active = ctx.active /\ ctx'.pending = ctx.pending
      BY <1>4, <1>7, <1>10 DEF Items
    <2> QED BY <1>1, <1>3, <1>13, <2>1, <2>2, <2>3 DEF HeldStep, Locked
  <1> QED BY <1>2, <1>12, <1>14, <1>15, <1>16, HeldHolds

\* A slot that is not on the bus goes to another state.
LEMMA MovedIs ==
    ASSUME NEW c, NEW b, NEW r, NEW o, Core(c, b, r, o), NEW d \in Directions, NEW i \in Slots,
           NEW s \in States, s # "Submitted", State(c, d, i) # "Submitted"
    PROVE  LET e == WithState(c, d, i, s)
           IN  /\ Core(e, b, r, o)
               /\ Words(e) = Words(c) /\ Rest(e) = Rest(c) /\ Items(e) = Items(c)
               /\ e.order = c.order
               /\ \A f \in Directions, j \in Slots :
                     State(e, f, j) = IF f = d /\ j = i THEN s ELSE State(c, f, j)
  <1> DEFINE e == WithState(c, d, i, s)
  <1>1. c \in Contexts /\ CtxOk(c)
    BY DEF Core, CtxOk
  <1>2. Follows(e, c)
    BY <1>1, WithStateFollows
  <1>3. Core(e, b, r, o)
    BY <1>2, CoreFollows
  <1>4. /\ Words(e) = Words(c) /\ Rest(e) = Rest(c) /\ Items(e) = Items(c)
        /\ e.order = c.order /\ State(e, d, i) = s
    BY <1>1, WithStateIs
  <1>5. \A f \in Directions, j \in Slots : (f # d \/ j # i) => e.slots[f][j] = c.slots[f][j]
    BY <1>1, WithStateIs
  <1> HIDE DEF e
  <1>6. \A f \in Directions, j \in Slots :
            State(e, f, j) = IF f = d /\ j = i THEN s ELSE State(c, f, j)
    BY <1>4, <1>5 DEF State
  <1> QED BY <1>3, <1>4, <1>6 DEF e

LEMMA PairIdleIs ==
    ASSUME NEW c, NEW b, NEW r, NEW o, Core(c, b, r, o), NEW i \in Slots,
           \A d \in Directions : State(c, d, i) # "Submitted"
    PROVE  LET e == PairIdle(c, i)
           IN  /\ Core(e, b, r, o)
               /\ Words(e) = Words(c) /\ Rest(e) = Rest(c) /\ Items(e) = Items(c)
               /\ e.order = c.order
               /\ \A f \in Directions, j \in Slots :
                     State(e, f, j) = IF j = i THEN "Idle" ELSE State(c, f, j)
  <1> DEFINE m == WithState(c, "output", i, "Idle")
             e == WithState(m, "capture", i, "Idle")
  <1>1. "output" \in Directions /\ "capture" \in Directions /\ "Idle" \in States
    BY DEF Directions, States
  <1>2. /\ Core(m, b, r, o)
        /\ Words(m) = Words(c) /\ Rest(m) = Rest(c) /\ Items(m) = Items(c)
        /\ m.order = c.order
        /\ \A f \in Directions, j \in Slots :
              State(m, f, j) = IF f = "output" /\ j = i THEN "Idle" ELSE State(c, f, j)
    BY <1>1, MovedIs
  <1> HIDE DEF m
  <1>3. State(m, "capture", i) # "Submitted"
    BY <1>1, <1>2
  <1>4. /\ Core(e, b, r, o)
        /\ Words(e) = Words(m) /\ Rest(e) = Rest(m) /\ Items(e) = Items(m)
        /\ e.order = m.order
        /\ \A f \in Directions, j \in Slots :
              State(e, f, j) = IF f = "capture" /\ j = i THEN "Idle" ELSE State(m, f, j)
    BY <1>1, <1>2, <1>3, MovedIs
  <1>5. PairIdle(c, i) = e
    BY DEF PairIdle, m
  <1> HIDE DEF e
  <1>6. \A f \in Directions, j \in Slots :
            State(e, f, j) = IF j = i THEN "Idle" ELSE State(c, f, j)
    BY <1>2, <1>4 DEF Directions
  <1> QED BY <1>2, <1>4, <1>5, <1>6

\* A fatal stop keeps the slots and their order.
LEMMA StoppedIs ==
    ASSUME NEW c, NEW b, NEW r, NEW o, Core(c, b, r, o)
    PROVE  LET e == FatalStop(c)
           IN  /\ Core(e, b, r, o)
               /\ e.state = "Stopping" /\ ~e.running /\ Rest(e) = Rest(c) /\ Items(e) = Items(c)
               /\ e.order = c.order
               /\ \A f \in Directions, j \in Slots : State(e, f, j) = State(c, f, j)
  <1> DEFINE e == FatalStop(c)
  <1>1. c \in Contexts
    BY DEF Core, CtxOk
  <1>2. Core(e, b, r, o)
    BY <1>1, FatalStopFollows, CoreFollows
  <1>3. /\ e.state = "Stopping" /\ ~e.running /\ Rest(e) = Rest(c) /\ Items(e) = Items(c)
        /\ e.order = c.order /\ e.slots = c.slots
    BY <1>1, FatalStopIs
  <1> HIDE DEF e
  <1> QED BY <1>2, <1>3 DEF State, e

(***************************************************************************)
(* A capture and the output slot that it takes along                       *)
(***************************************************************************)
Taken(c) ==
    LET i == Head(c.order["capture"])
    IN  WithState(WithState(Ordered(c, "capture", Tail(c.order["capture"])),
                            "capture", i, "Processing"), "output", i, "Processing")

LEMMA TakenIs ==
    ASSUME IInv, Found(ctx, "capture")
    PROVE  LET t == Taken(ctx)
               i == Head(ctx.order["capture"])
           IN  /\ Core(t, bus, routines, overtaken)
               /\ Words(t) = Words(ctx) /\ Rest(t) = Rest(ctx) /\ Items(t) = Items(ctx)
               /\ t.order["capture"] = Tail(ctx.order["capture"])
               /\ t.order["output"] = ctx.order["output"]
               /\ \A f \in Directions, j \in Slots :
                     State(t, f, j) = IF j = i THEN "Processing" ELSE State(ctx, f, j)
  <1> DEFINE q == ctx.order["capture"]
             i == Head(q)
             s == Tail(q)
             a == Ordered(ctx, "capture", s)
             m == WithState(a, "capture", i, "Processing")
             t == WithState(m, "output", i, "Processing")
  <1>1. /\ Core(ctx, bus, routines, overtaken) /\ CtxOk(ctx) /\ ctx \in Contexts
        /\ "output" \in Directions /\ "capture" \in Directions /\ "Processing" \in States
    BY DEF IInv, Core, CtxOk, Directions, States
  <1>2. /\ i \in Slots /\ s \in Seq(Slots)
        /\ State(ctx, "capture", i) = "Completed" /\ State(ctx, "output", i) = "Idle"
    BY <1>1, FoundIs
  <1> HIDE DEF q, i, s
  <1>3. Follows(a, ctx)
    BY <1>1, <1>2, OrderFollows
  <1>4. a.slots = ctx.slots
    BY <1>1, <1>2, OrderIs
  <1>5. a.order["capture"] = s
    BY <1>1, <1>2, OrderIs
  <1>6. \A f \in Directions : f # "capture" => a.order[f] = ctx.order[f]
    BY <1>1, <1>2, OrderIs
  <1>7. Words(a) = Words(ctx) /\ Rest(a) = Rest(ctx) /\ Items(a) = Items(ctx)
    BY <1>1, <1>2, OrderIs
  <1> HIDE DEF a
  <1>8. Core(a, bus, routines, overtaken)
    BY <1>1, <1>3, CoreFollows
  <1>9. \A f \in Directions, j \in Slots : State(a, f, j) = State(ctx, f, j)
    BY <1>4 DEF State
  <1>10. State(a, "capture", i) # "Submitted"
    BY <1>1, <1>2, <1>9
  <1>11. /\ Core(m, bus, routines, overtaken)
         /\ Words(m) = Words(a) /\ Rest(m) = Rest(a) /\ Items(m) = Items(a)
         /\ m.order = a.order
         /\ \A f \in Directions, j \in Slots :
               State(m, f, j) = IF f = "capture" /\ j = i THEN "Processing" ELSE State(a, f, j)
    BY <1>1, <1>2, <1>8, <1>10, MovedIs
  <1> HIDE DEF m
  <1>12. State(m, "output", i) # "Submitted"
    BY <1>1, <1>2, <1>9, <1>11
  <1>13. /\ Core(t, bus, routines, overtaken)
         /\ Words(t) = Words(m) /\ Rest(t) = Rest(m) /\ Items(t) = Items(m)
         /\ t.order = m.order
         /\ \A f \in Directions, j \in Slots :
               State(t, f, j) = IF f = "output" /\ j = i THEN "Processing" ELSE State(m, f, j)
    BY <1>1, <1>2, <1>11, <1>12, MovedIs
  <1>14. t = Taken(ctx)
    BY DEF Taken, t, m, a, s, i, q
  <1> HIDE DEF t
  <1>15. \A f \in Directions, j \in Slots :
            State(t, f, j) = IF j = i THEN "Processing" ELSE State(ctx, f, j)
    BY <1>9, <1>11, <1>13 DEF Directions
  <1>16. t.order["capture"] = s /\ t.order["output"] = ctx.order["output"]
    BY <1>1, <1>5, <1>6, <1>11, <1>13
  <1> QED BY <1>7, <1>11, <1>13, <1>14, <1>15, <1>16 DEF i, s, q

\* The capture is off its order.  Both slots are free again, or the worker keeps the capture,
\* and the output if it is going to send it.
LEMMA CaptureLeaves ==
    ASSUME IInv, NEW w \in Workers, workers[w].pc = "capture", Found(ctx, "capture"),
           NEW i, i = Head(ctx.order["capture"]), NEW pc, NEW sc, NEW so,
           \/ workers' = workers /\ pc = "capture" /\ sc = "Idle" /\ so = "Idle"
           \/ Worker(w, pc, i) /\ pc = "sendOutput" /\ sc = "Processing" /\ so = "Processing"
           \/ Worker(w, pc, i) /\ pc = "resubmit" /\ sc = "Processing" /\ so = "Idle",
           UNCHANGED <<bus, routines, lock, purge, threads, overtaken>>,
           Core(ctx', bus, routines, overtaken),
           Rest(ctx') = Rest(ctx), Items(ctx') = Items(ctx),
           Words(ctx') = Words(ctx) \/ (ctx'.state = "Stopping" /\ ~ctx'.running),
           ctx'.order["capture"] = Tail(ctx.order["capture"]),
           ctx'.order["output"] = ctx.order["output"],
           \A j \in Slots :
              /\ State(ctx', "capture", j) = IF j = i THEN sc ELSE State(ctx, "capture", j)
              /\ State(ctx', "output", j) = IF j = i THEN so ELSE State(ctx, "output", j)
    PROVE  IInv'
  <1> DEFINE q == ctx.order["capture"]
  <1>1. /\ Types /\ OrderOk(ctx) /\ PairInv /\ ctx \in Contexts
        /\ "output" \in Directions /\ "capture" \in Directions
    BY DEF IInv, Core, CtxOk, Directions
  <1>2. /\ q \in Seq(Slots) /\ q # <<>> /\ i \in Slots /\ Tail(q) \in Seq(Slots)
        /\ State(ctx, "capture", i) = "Completed" /\ State(ctx, "output", i) = "Idle"
    BY <1>1, FoundIs
  <1>3. i \in 0 .. SlotCount
    BY <1>2, EngineConstants DEF Slots
  <1>4. /\ workers' \in [Workers -> [pc : Places, slot : 0 .. SlotCount]]
        /\ workers'[w].pc = pc
        /\ pc \in {"sendOutput", "resubmit"} => workers'[w].slot = i
        /\ \A v \in Workers : v # w => workers'[v] = workers[v]
    <2>1. pc \in Places
      BY DEF Places, Working, Capturing
    <2>2. CASE Worker(w, pc, i)
      BY <1>1, <1>3, <2>1, <2>2, WorkerIs
    <2>3. CASE workers' = workers /\ pc = "capture"
      BY <1>1, <2>3 DEF Types
    <2> QED BY <2>2, <2>3
  <1>5. Types'
    BY <1>1, <1>4 DEF Types
  <1>6. Core(ctx', bus', routines', overtaken')
    OBVIOUS
  <1>7. ctx'.state \in {ctx.state, "Stopping"} /\ (ctx'.running => ctx.running)
    BY DEF Words
  <1>8. OrderOk(ctx')
    <2>1. InOrder(Tail(q), LiveSlots(ctx, "capture") \ {i}, ctx.running)
      <3>1. InOrder(q, LiveSlots(ctx, "capture"), ctx.running)
        BY <1>1 DEF OrderOk
      <3>2. i = Head(q)
        OBVIOUS
      <3> HIDE DEF q
      <3> QED BY <1>2, <3>1, <3>2, OrderTail
    <2>2. LiveSlots(ctx', "capture") = LiveSlots(ctx, "capture") \ {i}
      BY <1>2 DEF LiveSlots, Live
    <2>3. LiveSlots(ctx', "output") = LiveSlots(ctx, "output")
      BY <1>2 DEF LiveSlots, Live
    <2>4. InOrder(ctx.order["output"], LiveSlots(ctx, "output"), ctx.running)
      BY <1>1 DEF OrderOk
    <2> QED BY <1>7, <2>1, <2>2, <2>3, <2>4, OrderKept DEF OrderOk, Directions
  <1>9. PairInv'
    <2>1. \A v \in Workers : /\ workers[v].pc \notin {"sendOutput", "resubmit"}
                             /\ v # w => workers'[v].pc \notin {"sendOutput", "resubmit"}
      <3>1. \A v \in Workers : v # w => workers[v].pc \notin Working
        BY DEF IInv, WorkInv, Working, Capturing
      <3> QED BY <1>4, <3>1 DEF Working, Capturing
    <2>2. \A j \in Slots : State(ctx, "capture", j) # "Processing" /\ State(ctx, "output", j) # "Processing"
      BY <1>1, <2>1 DEF PairInv, At
    <2>3. \A v \in Workers : workers'[v].pc \in {"sendOutput", "resubmit"} =>
             workers'[v].slot \in Slots /\ State(ctx', "capture", workers'[v].slot) = "Processing"
      BY <1>2, <1>4, <2>1
    <2>4. \A v \in Workers : workers'[v].pc = "sendOutput" =>
             State(ctx', "output", workers'[v].slot) = "Processing"
      BY <1>2, <1>4, <2>1
    <2>5. \A j \in Slots :
             /\ State(ctx', "capture", j) = "Processing" =>
                   workers'[w].pc \in {"sendOutput", "resubmit"} /\ workers'[w].slot = j
             /\ State(ctx', "output", j) = "Processing" =>
                   workers'[w].pc = "sendOutput" /\ workers'[w].slot = j
      BY <1>4, <2>2
    <2> QED BY <2>3, <2>4, <2>5 DEF PairInv, At
  <1>10. HeldStep(w)
    <2>1. workers[w].pc \in Capturing /\ workers'[w].pc \in Capturing
      BY <1>4 DEF Capturing
    <2>2. Found(ctx', "output") => Found(ctx, "output")
      <3>1. SUFFICES ASSUME Found(ctx', "output") PROVE Found(ctx, "output")
        OBVIOUS
      <3>2. ctx' \in Contexts
        BY DEF Core, CtxOk
      <3>3. /\ ctx.order["output"] # <<>> /\ Head(ctx.order["output"]) \in Slots
            /\ State(ctx', "output", Head(ctx.order["output"])) = "Completed"
        BY <1>1, <3>1, <3>2, FoundIs
      <3>4. State(ctx, "output", Head(ctx.order["output"])) = "Completed"
        BY <3>3
      <3> QED BY <3>3, <3>4 DEF Found, State
    <2>3. Rest(ctx') = Rest(ctx) /\ ctx'.active = ctx.active /\ ctx'.pending = ctx.pending
      BY DEF Items
    <2>4. overtaken <= overtaken'
      BY <1>1 DEF Types
    <2>5. \A f \in Directions, j \in Slots :
             State(ctx', f, j) = "Uninitialized" => State(ctx, f, j) = "Uninitialized"
      BY <1>2 DEF Directions
    <2> QED BY <1>1, <1>2, <1>4, <1>7, <2>1, <2>2, <2>3, <2>4, <2>5 DEF HeldStep, Locked
  <1> QED BY <1>5, <1>6, <1>8, <1>9, <1>10, HeldHolds

LEMMA ProcessCaptureHolds ==
    ASSUME IInv, NEW w \in Workers, ProcessCapture(w)
    PROVE  IInv'
  <1> DEFINE q == ctx.order["capture"]
             i == Head(q)
             t == Taken(ctx)
             j == Judged(t, "capture", i)
             p == PairIdle(t, i)
             Free == workers' = workers
             Leaves(e) ==
                 /\ Core(e, bus, routines, overtaken)
                 /\ Rest(e) = Rest(ctx) /\ Items(e) = Items(ctx)
                 /\ Words(e) = Words(ctx) \/ (e.state = "Stopping" /\ ~e.running)
                 /\ e.order["capture"] = Tail(q) /\ e.order["output"] = ctx.order["output"]
             Pair(e, sc, so) ==
                 \A k \in Slots :
                    /\ State(e, "capture", k) = IF k = i THEN sc ELSE State(ctx, "capture", k)
                    /\ State(e, "output", k) = IF k = i THEN so ELSE State(ctx, "output", k)
  <1>1. /\ workers[w].pc = "capture" /\ Found(ctx, "capture")
        /\ UNCHANGED <<bus, routines, lock, purge, threads, overtaken>>
    BY DEF ProcessCapture, At
  <1>2. \/ Free /\ ctx' \in {p, FatalStop(p), PairIdle(j, i)}
        \/ ctx' = j /\ Worker(w, "sendOutput", i)
        \/ ctx' = WithState(j, "output", i, "Idle") /\ Worker(w, "resubmit", i)
    BY DEF ProcessCapture, FatalIf, Taken, Ordered
  <1>3. /\ Core(ctx, bus, routines, overtaken) /\ ctx \in Contexts /\ StopInv
        /\ "output" \in Directions /\ "capture" \in Directions /\ "Idle" \in States
    BY DEF IInv, Core, CtxOk, Directions, States
  <1>4. i \in Slots
    BY <1>1, <1>3, FoundIs
  <1>5. /\ Core(t, bus, routines, overtaken)
        /\ Words(t) = Words(ctx) /\ Rest(t) = Rest(ctx) /\ Items(t) = Items(ctx)
        /\ t.order["capture"] = Tail(q) /\ t.order["output"] = ctx.order["output"]
        /\ \A f \in Directions, k \in Slots :
              State(t, f, k) = IF k = i THEN "Processing" ELSE State(ctx, f, k)
    BY <1>1, TakenIs
  <1>6. t.state # "Stopped" /\ CtxOk(t)
    <2>1. ctx.state # "Stopped"
      BY <1>1, <1>3 DEF StopInv, Quiet, ProcessIdle, At
    <2> QED BY <1>5, <2>1 DEF Words, Core
  <1> HIDE DEF t, i
  <1>7. /\ Follows(j, t)
        /\ \A f \in Directions, k \in Slots : State(j, f, k) = State(t, f, k)
        /\ j.order = t.order /\ Items(j) = Items(t) /\ Rest(j) = Rest(t)
        /\ Words(j) = Words(t) \/ (j.state = "Stopping" /\ ~j.running)
    BY <1>3, <1>4, <1>6, JudgedIs
  <1>8. Core(j, bus, routines, overtaken)
    BY <1>5, <1>7, CoreFollows
  <1> HIDE DEF j
  <1>9. Leaves(j) /\ Pair(j, "Processing", "Processing")
    <2>1. Words(j) = Words(ctx) \/ (j.state = "Stopping" /\ ~j.running)
      BY <1>5, <1>7
    <2> QED BY <1>3, <1>5, <1>7, <1>8, <2>1
  <1>10. CASE ctx' = j /\ Worker(w, "sendOutput", i)
    <2> HIDE DEF q
    <2> QED BY <1>1, <1>4, <1>9, <1>10, CaptureLeaves DEF i, q
  <1>11. CASE ctx' = WithState(j, "output", i, "Idle") /\ Worker(w, "resubmit", i)
    <2> DEFINE e == WithState(j, "output", i, "Idle")
    <2>1. State(j, "output", i) # "Submitted"
      BY <1>4, <1>9
    <2>2. /\ Core(e, bus, routines, overtaken)
          /\ Words(e) = Words(j) /\ Rest(e) = Rest(j) /\ Items(e) = Items(j)
          /\ e.order = j.order
          /\ \A f \in Directions, k \in Slots :
                State(e, f, k) = IF f = "output" /\ k = i THEN "Idle" ELSE State(j, f, k)
      BY <1>3, <1>4, <1>8, <2>1, MovedIs
    <2> HIDE DEF e
    <2>3. Leaves(e)
      BY <1>9, <2>2 DEF Words
    <2>4. Pair(e, "Processing", "Idle")
      BY <1>3, <1>9, <2>2
    <2>5. ctx' = e /\ Worker(w, "resubmit", i)
      BY <1>11 DEF e
    <2> HIDE DEF q
    <2> QED BY <1>1, <1>4, <2>3, <2>4, <2>5, CaptureLeaves DEF i, q
  <1>12. ASSUME NEW c, Leaves(c), Pair(c, "Processing", "Processing")
         PROVE  Leaves(PairIdle(c, i)) /\ Pair(PairIdle(c, i), "Idle", "Idle")
    <2> DEFINE e == PairIdle(c, i)
    <2>1. \A d \in Directions : State(c, d, i) # "Submitted"
      BY <1>4, <1>12 DEF Directions
    <2>2. /\ Core(e, bus, routines, overtaken)
          /\ Words(e) = Words(c) /\ Rest(e) = Rest(c) /\ Items(e) = Items(c)
          /\ e.order = c.order
          /\ \A f \in Directions, k \in Slots : State(e, f, k) = IF k = i THEN "Idle" ELSE State(c, f, k)
      BY <1>4, <1>12, <2>1, PairIdleIs
    <2> HIDE DEF e
    <2>3. Leaves(e)
      BY <1>12, <2>2 DEF Words
    <2>4. Pair(e, "Idle", "Idle")
      BY <1>3, <1>12, <2>2
    <2> QED BY <2>3, <2>4 DEF e
  <1>13. Leaves(t) /\ Pair(t, "Processing", "Processing")
    BY <1>3, <1>5
  <1>14. Leaves(p) /\ Pair(p, "Idle", "Idle")
    BY <1>12, <1>13
  <1>15. Leaves(FatalStop(p)) /\ Pair(FatalStop(p), "Idle", "Idle")
    <2> HIDE DEF p
    <2> DEFINE e == FatalStop(p)
    <2>1. /\ Core(e, bus, routines, overtaken)
          /\ e.state = "Stopping" /\ ~e.running /\ Rest(e) = Rest(p) /\ Items(e) = Items(p)
          /\ e.order = p.order
          /\ \A f \in Directions, k \in Slots : State(e, f, k) = State(p, f, k)
      BY <1>14, StoppedIs
    <2> HIDE DEF e
    <2>2. Leaves(e) /\ Pair(e, "Idle", "Idle")
      BY <1>3, <1>14, <2>1
    <2> QED BY <2>2 DEF e
  <1>16. Leaves(PairIdle(j, i)) /\ Pair(PairIdle(j, i), "Idle", "Idle")
    BY <1>9, <1>12
  <1>17. CASE Free /\ ctx' \in {p, FatalStop(p), PairIdle(j, i)}
    <2> HIDE DEF p
    <2>1. Leaves(ctx') /\ Pair(ctx', "Idle", "Idle")
      BY <1>14, <1>15, <1>16, <1>17
    <2>2. Free
      BY <1>17
    <2> HIDE DEF q
    <2> QED BY <1>1, <1>4, <2>1, <2>2, CaptureLeaves DEF i, q
  <1> QED BY <1>2, <1>10, <1>11, <1>17

(***************************************************************************)
(* The submissions of the worker                                           *)
(***************************************************************************)
LEMMA SentTo ==
    ASSUME Types, NEW d \in Directions, NEW i \in Slots, NEW result, SendTo(d, i, result)
    PROVE  /\ bus' = IF result = "sent" THEN bus \cup {<<d, i>>} ELSE bus
           /\ bus' \subseteq Requests /\ routines[<<d, i>>] \in Nat
           /\ overtaken' \in 0 .. MaxOvertaken /\ overtaken <= overtaken'
           /\ result \in {"sent", "refused"} => Counted(routines, d, i, overtaken, overtaken')
           /\ result \notin {"sent", "refused"} => overtaken' = overtaken
  <1>1. <<d, i>> \in Requests
    BY DEF Requests
  <1>2. /\ bus' = IF result = "sent" THEN bus \cup {<<d, i>>} ELSE bus
        /\ bus' \subseteq Requests /\ routines[<<d, i>>] \in Nat
    BY <1>1 DEF SendTo, Types
  <1>3. overtaken \in Nat /\ overtaken <= MaxOvertaken /\ MaxOvertaken \in Nat
    BY EngineConstants DEF Types
  <1>4. CASE result \in {"sent", "refused"} /\ routines[<<d, i>>] > 0
    BY <1>2, <1>3, <1>4 DEF SendTo, Counted
  <1>5. CASE ~(result \in {"sent", "refused"} /\ routines[<<d, i>>] > 0)
    <2>1. overtaken' = overtaken
      BY <1>5 DEF SendTo
    <2> QED BY <1>2, <1>3, <1>5, <2>1 DEF Counted
  <1> QED BY <1>4, <1>5

LEMMA SameOrder ==
    ASSUME NEW c, NEW e, OrderOk(c), e.order = c.order, e.running => c.running,
           \A d \in Directions : LiveSlots(e, d) = LiveSlots(c, d)
    PROVE  OrderOk(e)
  BY OrderKept DEF OrderOk

LEMMA MoreOrder ==
    ASSUME NEW c \in Contexts, NEW e, OrderOk(c), c.running,
           NEW d \in Directions, NEW i \in Slots, State(c, d, i) \notin Live,
           e.order[d] = Append(c.order[d], i), e.running => c.running,
           \/ LiveSlots(e, d) = LiveSlots(c, d) \cup {i}
           \/ LiveSlots(e, d) = LiveSlots(c, d) /\ ~e.running,
           \A f \in Directions : f # d => e.order[f] = c.order[f] /\ LiveSlots(e, f) = LiveSlots(c, f)
    PROVE  OrderOk(e)
  <1>1. c.order[d] \in Seq(Slots) /\ c.running = TRUE
    BY DEF Contexts
  <1>2. InOrder(c.order[d], LiveSlots(c, d), TRUE) /\ i \notin LiveSlots(c, d)
    BY <1>1 DEF OrderOk, LiveSlots
  <1>3. InOrder(e.order[d], LiveSlots(e, d), e.running)
    <2> DEFINE q == c.order[d]
               live == LiveSlots(c, d)
               more == LiveSlots(e, d)
               r == e.running
    <2>1. q \in Seq(Slots) /\ InOrder(q, live, TRUE) /\ i \notin live
      BY <1>1, <1>2
    <2>2. more = live \cup {i} \/ (more = live /\ ~r)
      OBVIOUS
    <2> HIDE DEF q, live, more, r
    <2>3. InOrder(Append(q, i), more, r)
      BY <2>1, <2>2, OrderAppend
    <2> QED BY <2>3 DEF q, more, r
  <1>4. \A f \in Directions : f # d => InOrder(e.order[f], LiveSlots(e, f), e.running)
    BY OrderKept DEF OrderOk
  <1> QED BY <1>3, <1>4 DEF OrderOk

\* The worker gives the output away and keeps the capture, or gives the capture away too.
Hands(w, i, pc, slot) ==
    /\ workers[w].pc \in {"sendOutput", "resubmit"} /\ i = workers[w].slot
    /\ \/ pc = "resubmit" /\ slot = i /\ State(ctx', "capture", i) = "Processing"
       \/ pc = "capture" /\ slot = 0 /\ State(ctx', "capture", i) # "Processing"
    /\ workers[w].pc = "sendOutput" => State(ctx', "output", i) # "Processing"
    /\ Worker(w, pc, slot)
    /\ routines' = routines /\ lock' = lock /\ purge' = purge /\ threads' = threads
    /\ bus' = bus \/ ctx.state = "Running"
    /\ bus' \subseteq Requests
    /\ overtaken' \in 0 .. MaxOvertaken /\ overtaken <= overtaken'
    /\ Rest(ctx') = Rest(ctx) /\ ctx'.active = ctx.active /\ (ctx.pending => ctx'.pending)
    /\ ctx'.state \in {ctx.state, "Stopping"}
    /\ Found(ctx', "output") => Found(ctx, "output") \/ ctx'.pending
    /\ \A d \in Directions, j \in Slots :
          State(ctx', d, j) = State(ctx, d, j)
            \/ (j = i /\ State(ctx', d, j) \notin {"Processing", "Uninitialized"})

LEMMA HandedOn ==
    ASSUME IInv, NEW w \in Workers, NEW i, NEW pc, NEW slot, Hands(w, i, pc, slot),
           Core(ctx', bus', routines, overtaken'), OrderOk(ctx')
    PROVE  IInv'
  <1>1. /\ Types /\ PairInv /\ "output" \in Directions /\ "capture" \in Directions
    BY DEF IInv, Directions
  <1>2. i \in Slots /\ State(ctx, "capture", i) = "Processing"
    BY <1>1 DEF PairInv, Hands
  <1>3. /\ workers' \in [Workers -> [pc : Places, slot : 0 .. SlotCount]]
        /\ workers'[w].pc = pc /\ workers'[w].slot = slot
        /\ \A v \in Workers : v # w => workers'[v] = workers[v]
    <2>1. pc \in Places
      BY DEF Places, Working, Capturing, Hands
    <2>2. slot \in 0 .. SlotCount
      BY <1>2, EngineConstants DEF Slots, Hands
    <2> QED BY <1>1, <2>1, <2>2, WorkerIs DEF Hands
  <1>4. Types'
    BY <1>1, <1>3 DEF Types, Hands
  <1>5. PairInv'
    <2>1. \A v \in Workers : v # w =>
             /\ workers[v].pc \notin {"sendOutput", "resubmit"}
             /\ workers'[v].pc \notin {"sendOutput", "resubmit"}
      <3>1. \A v \in Workers : v # w => workers[v].pc \notin Working
        BY DEF IInv, WorkInv, Working, Capturing, Hands
      <3> QED BY <1>3, <3>1 DEF Working, Capturing, Hands
    <2>2. \A j \in Slots :
             /\ State(ctx, "capture", j) = "Processing" => j = i
             /\ State(ctx, "output", j) = "Processing" => j = i /\ workers[w].pc = "sendOutput"
      BY <1>1, <2>1 DEF PairInv, At, Hands
    <2>3. \A j \in Slots : State(ctx', "output", j) # "Processing"
      BY <1>1, <1>2, <2>2 DEF Hands
    <2>4. \A j \in Slots : State(ctx', "capture", j) = "Processing" => j = i /\ pc = "resubmit"
      BY <1>1, <1>2, <2>2 DEF Hands
    <2>5. \A v \in Workers : workers'[v].pc \in {"sendOutput", "resubmit"} =>
             workers'[v].slot \in Slots /\ State(ctx', "capture", workers'[v].slot) = "Processing"
      BY <1>2, <1>3, <2>1 DEF Hands
    <2>6. \A v \in Workers : workers'[v].pc # "sendOutput"
      BY <1>3, <2>1 DEF Hands
    <2> QED BY <1>3, <2>3, <2>4, <2>5, <2>6 DEF PairInv, At
  <1>6. HeldStep(w)
    <2>1. workers[w].pc \in Capturing /\ workers'[w].pc \in Capturing
      BY <1>3 DEF Capturing, Hands
    <2> QED BY <1>1, <1>2, <1>3, <2>1 DEF HeldStep, Locked, Hands
  <1>7. Core(ctx', bus', routines', overtaken')
    BY DEF Hands
  <1> QED BY <1>4, <1>5, <1>6, <1>7, HeldHolds

\* A request is sent or refused only by an engine that runs.
LEMMA MaySend ==
    ASSUME NEW c, CtxOk(c), NEW d, NEW i, NEW result \in SubmitResults(c, d, i), result # "cancelled"
    PROVE  c.running /\ c.state = "Running"
  BY DEF SubmitResults, MaySubmit

LEMMA ResultsAre ==
    ASSUME NEW c, NEW d, NEW i, NEW result \in SubmitResults(c, d, i)
    PROVE  result \in {"cancelled", "unusable", "unformatted", "refused", "sent"}
  BY DEF SubmitResults

LEMMA SendOutputHolds ==
    ASSUME IInv, NEW w \in Workers, SendOutput(w)
    PROVE  IInv'
  <1> DEFINE i == workers[w].slot
  <1>1. /\ workers[w].pc = "sendOutput" /\ workers[w].pc \in {"sendOutput", "resubmit"}
        /\ UNCHANGED <<routines, lock, purge, threads>>
    BY DEF SendOutput, At
  <1>2. /\ Types /\ OrderOk(ctx) /\ PairInv /\ Core(ctx, bus, routines, overtaken)
        /\ CtxOk(ctx) /\ ctx \in Contexts
        /\ "output" \in Directions /\ "capture" \in Directions
    BY DEF IInv, Core, CtxOk, Directions
  <1>3. /\ i \in Slots
        /\ State(ctx, "capture", i) = "Processing" /\ State(ctx, "output", i) = "Processing"
    BY <1>1, <1>2 DEF PairInv, At
  <1>4. PICK result \in SubmitResults(ctx, "output", i) \cup (IF MayFail THEN {"unprepared"} ELSE {}) :
          /\ IF result = "sent"
             THEN /\ ctx' = Submitted(ctx, "output", i, result)
                  /\ Worker(w, "resubmit", i)
             ELSE /\ ctx' = FatalStop(PairIdle(
                        IF result = "unprepared" THEN ctx
                        ELSE Submitted(ctx, "output", i, result), i))
                  /\ Worker(w, "capture", 0)
          /\ SendTo("output", i, result)
    BY DEF SendOutput
  <1> HIDE DEF i
  <1>5. result \in {"cancelled", "unusable", "unformatted", "refused", "sent", "unprepared"}
    BY <1>4, ResultsAre
  <1>6. /\ bus' = IF result = "sent" THEN bus \cup {<<"output", i>>} ELSE bus
        /\ bus' \subseteq Requests /\ routines[<<"output", i>>] \in Nat
        /\ overtaken' \in 0 .. MaxOvertaken /\ overtaken <= overtaken'
        /\ result \in {"sent", "refused"} => Counted(routines, "output", i, overtaken, overtaken')
        /\ result \notin {"sent", "refused"} => overtaken' = overtaken
    BY <1>2, <1>3, <1>4, SentTo
  <1>7. State(ctx, "output", i) # "Submitted" /\ State(ctx, "output", i) \notin Live
    BY <1>3 DEF Live
  <1>8. result \in {"sent", "refused"} => ctx.running /\ ctx.state = "Running"
    BY <1>2, <1>4, MaySend
  <1>9. CASE result = "sent"
    <2> DEFINE e == Submitted(ctx, "output", i, "sent")
    <2>1. Counted(routines, "output", i, overtaken, overtaken')
      BY <1>6, <1>9
    <2>2. /\ Core(e, Carrying(bus, "output", i), routines, overtaken')
          /\ State(e, "output", i) = "Submitted"
          /\ e.order["output"] = Append(ctx.order["output"], i)
          /\ \A f \in Directions : f # "output" => e.order[f] = ctx.order[f]
          /\ \A f \in Directions, j \in Slots :
                (f # "output" \/ j # i) => State(e, f, j) = State(ctx, f, j)
          /\ Words(e) = Words(ctx) /\ Rest(e) = Rest(ctx) /\ Items(e) = Items(ctx)
      <3>1. /\ Core(ctx, bus, routines, overtaken) /\ "output" \in Directions /\ i \in Slots
            /\ State(ctx, "output", i) # "Submitted" /\ routines[<<"output", i>>] \in Nat
        BY <1>2, <1>3, <1>6, <1>7
      <3>2. Core(e, Carrying(bus, "output", i), routines, overtaken')
        BY <2>1, <3>1, SentIs
      <3>3. /\ e.order["output"] = Append(ctx.order["output"], i)
            /\ \A f \in Directions : f # "output" => e.order[f] = ctx.order[f]
            /\ Words(e) = Words(ctx) /\ Rest(e) = Rest(ctx) /\ Items(e) = Items(ctx)
        BY <1>2, <3>1, SentSlots
      <3>4. /\ State(e, "output", i) = "Submitted"
            /\ \A f \in Directions, j \in Slots :
                  (f # "output" \/ j # i) => State(e, f, j) = State(ctx, f, j)
        <4> DEFINE t == Sent(ctx.slots["output"][i], ctx.gen)
        <4>1. /\ e.slots["output"][i] = t /\ t.state = "Submitted"
              /\ \A f \in Directions, j \in Slots :
                    (f # "output" \/ j # i) => e.slots[f][j] = ctx.slots[f][j]
          BY <1>2, <3>1, SentSlots
        <4> HIDE DEF e, t
        <4> QED BY <4>1 DEF State
      <3> HIDE DEF e
      <3> QED BY <3>2, <3>3, <3>4
    <2>3. ctx' = e /\ Worker(w, "resubmit", i) /\ bus' = bus \cup {<<"output", i>>}
      BY <1>4, <1>6, <1>9
    <2> HIDE DEF e
    <2>4. Core(ctx', bus', routines, overtaken')
      BY <2>2, <2>3 DEF Carrying
    <2>5. OrderOk(ctx')
      <3>1. LiveSlots(ctx', "output") = LiveSlots(ctx, "output") \cup {i}
        BY <1>2, <1>3, <2>2, <2>3 DEF LiveSlots, Live
      <3>2. \A f \in Directions : f # "output" => LiveSlots(ctx', f) = LiveSlots(ctx, f)
        BY <2>2, <2>3 DEF LiveSlots
      <3>3. ctx'.running => ctx.running
        BY <2>2, <2>3 DEF Words
      <3> QED BY <1>2, <1>3, <1>7, <1>8, <1>9, <2>2, <2>3, <3>1, <3>2, <3>3, MoreOrder
    <2>6. Found(ctx', "output") => Found(ctx, "output")
      <3>1. SUFFICES ASSUME Found(ctx', "output") PROVE Found(ctx, "output")
        OBVIOUS
      <3> DEFINE q == ctx.order["output"]
      <3>2. q \in Seq(Slots) /\ ctx'.order["output"] = Append(q, i)
        BY <1>2, <2>2, <2>3 DEF Contexts
      <3>3. State(ctx', "output", Head(Append(q, i))) = "Completed"
        BY <3>1, <3>2 DEF Found, State
      <3> HIDE DEF q
      <3>4. CASE q = <<>>
        <4>1. Head(Append(q, i)) = i
          BY <3>4
        <4> QED BY <2>2, <2>3, <3>3, <4>1
      <3>5. CASE q # <<>>
        <4>1. Head(Append(q, i)) = Head(q) /\ Head(q) \in Slots
          BY <1>3, <3>2, <3>5
        <4>2. Head(q) # i
          BY <2>2, <2>3, <3>3, <4>1
        <4>3. State(ctx, "output", Head(q)) = "Completed"
          BY <1>2, <2>2, <2>3, <3>3, <4>1, <4>2
        <4> QED BY <3>5, <4>3 DEF Found, State, q
      <3> QED BY <3>4, <3>5
    <2>7. ctx'.state \in {ctx.state, "Stopping"}
      BY <2>2, <2>3 DEF Words
    <2>8. /\ Rest(ctx') = Rest(ctx) /\ ctx'.active = ctx.active /\ (ctx.pending => ctx'.pending)
      BY <2>2, <2>3 DEF Items
    <2>9. /\ State(ctx', "capture", i) = "Processing" /\ State(ctx', "output", i) = "Submitted"
      BY <1>2, <1>3, <2>2, <2>3
    <2>10. \A d \in Directions, j \in Slots :
              State(ctx', d, j) = State(ctx, d, j)
                \/ (j = i /\ State(ctx', d, j) \notin {"Processing", "Uninitialized"})
      <3>1. ASSUME NEW d \in Directions, NEW j \in Slots
            PROVE  State(ctx', d, j) = State(ctx, d, j)
                     \/ (j = i /\ State(ctx', d, j) \notin {"Processing", "Uninitialized"})
        <4>1. CASE d = "output" /\ j = i
          BY <2>9, <4>1
        <4>2. CASE d # "output" \/ j # i
          BY <2>2, <2>3, <4>2
        <4> QED BY <4>1, <4>2
      <3> QED BY <3>1
    <2>11. i = workers[w].slot
      BY DEF i
    <2>12. ctx.state = "Running" /\ State(ctx', "output", i) # "Processing"
      BY <1>8, <1>9, <2>9
    <2>13. Hands(w, i, "resubmit", i)
      BY <1>1, <1>6, <2>3, <2>6, <2>7, <2>8, <2>9, <2>10, <2>11, <2>12 DEF Hands
    <2> QED BY <2>4, <2>5, <2>13, HandedOn
  <1>10. CASE result # "sent"
    <2> DEFINE m == IF result = "unprepared" THEN ctx ELSE Submitted(ctx, "output", i, result)
    <2>1. /\ Core(m, bus, routines, overtaken')
          /\ \A j \in Slots : j # i => State(m, "output", j) = State(ctx, "output", j)
          /\ \A j \in Slots : State(m, "capture", j) = State(ctx, "capture", j)
          /\ State(m, "output", i) # "Submitted"
          /\ Words(m) = Words(ctx) /\ Rest(m) = Rest(ctx)
          /\ m.active = ctx.active /\ (ctx.pending => m.pending)
          /\ m.order["capture"] = ctx.order["capture"]
          /\ \/ m.order["output"] = ctx.order["output"]
             \/ m.order["output"] = Append(ctx.order["output"], i) /\ m.pending /\ ctx.running
      <3>1. CASE result = "unprepared"
        BY <1>2, <1>3, <1>6, <3>1
      <3>2. CASE result = "refused"
        <4> DEFINE e == Submitted(ctx, "output", i, "refused")
        <4>1. Counted(routines, "output", i, overtaken, overtaken')
          BY <1>6, <3>2
        <4>2. /\ Core(e, bus, routines, overtaken')
              /\ State(e, "output", i) = "Completed"
              /\ e.order["output"] = Append(ctx.order["output"], i)
              /\ \A f \in Directions : f # "output" => e.order[f] = ctx.order[f]
              /\ \A f \in Directions, j \in Slots :
                    (f # "output" \/ j # i) => State(e, f, j) = State(ctx, f, j)
              /\ Words(e) = Words(ctx) /\ Rest(e) = Rest(ctx)
              /\ e.pending /\ e.active = ctx.active /\ (e.queued <=> ctx.queued \/ ~ctx.active)
          BY <1>2, <1>3, <1>6, <1>7, <4>1, RefusedIs
        <4>3. m = e
          BY <3>2
        <4> HIDE DEF e, m
        <4> QED BY <1>2, <1>8, <3>2, <4>2, <4>3
      <3>3. CASE result \in {"cancelled", "unusable", "unformatted"}
        <4> DEFINE e == Submitted(ctx, "output", i, result)
        <4>1. /\ Follows(e, ctx)
              /\ State(e, "output", i) = "Idle"
              /\ e.order = ctx.order
              /\ \A f \in Directions, j \in Slots :
                    (f # "output" \/ j # i) => State(e, f, j) = State(ctx, f, j)
              /\ Words(e) = Words(ctx) /\ Rest(e) = Rest(ctx) /\ Items(e) = Items(ctx)
          BY <1>2, <1>3, <1>7, <3>3, UnsentIs
        <4>2. m = e
          BY <3>3
        <4> HIDE DEF e, m
        <4>3. Core(e, bus, routines, overtaken')
          BY <1>2, <1>6, <3>3, <4>1, CoreFollows
        <4> QED BY <1>2, <4>1, <4>2, <4>3 DEF Items
      <3> QED BY <1>5, <1>10, <3>1, <3>2, <3>3
    <2>2. /\ ctx' = FatalStop(PairIdle(m, i)) /\ Worker(w, "capture", 0) /\ bus' = bus
      BY <1>4, <1>6, <1>10
    <2> HIDE DEF m
    <2> DEFINE p == PairIdle(m, i)
    <2>3. \A d \in Directions : State(m, d, i) # "Submitted"
      BY <1>3, <2>1 DEF Directions
    <2>4. /\ Core(p, bus, routines, overtaken')
          /\ Words(p) = Words(m) /\ Rest(p) = Rest(m) /\ Items(p) = Items(m)
          /\ p.order = m.order
          /\ \A f \in Directions, j \in Slots : State(p, f, j) = IF j = i THEN "Idle" ELSE State(m, f, j)
      BY <1>3, <2>1, <2>3, PairIdleIs
    <2> HIDE DEF p
    <2> DEFINE e == FatalStop(p)
    <2>5. /\ Core(e, bus, routines, overtaken')
          /\ e.state = "Stopping" /\ ~e.running /\ Rest(e) = Rest(p) /\ Items(e) = Items(p)
          /\ e.order = p.order
          /\ \A f \in Directions, j \in Slots : State(e, f, j) = State(p, f, j)
      BY <2>4, StoppedIs
    <2>6. ctx' = e
      BY <2>2 DEF p
    <2> HIDE DEF e
    <2>7. \A f \in Directions, j \in Slots :
             State(ctx', f, j) = IF j = i THEN "Idle" ELSE State(ctx, f, j)
      BY <2>1, <2>4, <2>5, <2>6 DEF Directions
    <2>8. /\ Core(ctx', bus', routines, overtaken') /\ ctx'.state = "Stopping" /\ ~ctx'.running
          /\ Rest(ctx') = Rest(ctx) /\ ctx'.active = ctx.active /\ (ctx.pending => ctx'.pending)
      BY <2>1, <2>2, <2>4, <2>5, <2>6 DEF Items
    <2>9. \A f \in Directions : LiveSlots(ctx', f) = LiveSlots(ctx, f)
      BY <1>3, <2>7 DEF LiveSlots, Live, Directions
    <2>10. OrderOk(ctx')
      <3>1. ctx'.order["capture"] = ctx.order["capture"]
        BY <2>1, <2>4, <2>5, <2>6
      <3>2. CASE m.order["output"] = ctx.order["output"]
        <4>1. \A f \in Directions : ctx'.order[f] = ctx.order[f]
          BY <2>4, <2>5, <2>6, <3>1, <3>2 DEF Directions
        <4> QED BY <1>2, <2>8, <2>9, <4>1, OrderKept DEF OrderOk
      <3>3. CASE m.order["output"] = Append(ctx.order["output"], i) /\ m.pending /\ ctx.running
        <4>1. ctx'.order["output"] = Append(ctx.order["output"], i)
          BY <2>4, <2>5, <2>6, <3>3
        <4>2. \A f \in Directions : f # "output" => ctx'.order[f] = ctx.order[f]
          BY <3>1 DEF Directions
        <4> QED BY <1>2, <1>3, <1>7, <2>8, <2>9, <3>3, <4>1, <4>2, MoreOrder
      <3> QED BY <2>1, <3>2, <3>3
    <2>11. Found(ctx', "output") => Found(ctx, "output") \/ ctx'.pending
      <3>1. CASE m.order["output"] = ctx.order["output"]
        <4>1. SUFFICES ASSUME Found(ctx', "output") PROVE Found(ctx, "output")
          OBVIOUS
        <4>2. ctx'.order["output"] = ctx.order["output"] /\ ctx' \in Contexts
          BY <2>4, <2>5, <2>6, <2>8, <3>1 DEF Core, CtxOk
        <4>3. /\ ctx.order["output"] # <<>> /\ Head(ctx.order["output"]) \in Slots
              /\ State(ctx', "output", Head(ctx.order["output"])) = "Completed"
          BY <1>2, <4>1, <4>2, FoundIs
        <4>4. State(ctx, "output", Head(ctx.order["output"])) = "Completed"
          BY <1>2, <2>7, <4>3
        <4> QED BY <4>3, <4>4 DEF Found, State
      <3>2. CASE m.pending
        BY <2>4, <2>5, <2>6, <3>2 DEF Items
      <3> QED BY <2>1, <3>1, <3>2
    <2>12. /\ State(ctx', "capture", i) = "Idle" /\ State(ctx', "output", i) = "Idle"
      BY <1>2, <1>3, <2>7
    <2>13. \A d \in Directions, j \in Slots :
              State(ctx', d, j) = State(ctx, d, j)
                \/ (j = i /\ State(ctx', d, j) \notin {"Processing", "Uninitialized"})
      BY <2>7
    <2>14. i = workers[w].slot
      BY DEF i
    <2>15. State(ctx', "capture", i) # "Processing" /\ State(ctx', "output", i) # "Processing"
      BY <2>12
    <2>16. ctx'.state \in {ctx.state, "Stopping"}
      BY <2>8
    <2>17. Hands(w, i, "capture", 0)
      BY <1>1, <1>6, <2>2, <2>8, <2>11, <2>13, <2>14, <2>15, <2>16 DEF Hands
    <2> QED BY <2>8, <2>10, <2>17, HandedOn
  <1> QED BY <1>9, <1>10

LEMMA ResubmitHolds ==
    ASSUME IInv, NEW w \in Workers, Resubmit(w)
    PROVE  IInv'
  <1> DEFINE i == workers[w].slot
  <1>1. /\ workers[w].pc = "resubmit" /\ workers[w].pc \in {"sendOutput", "resubmit"}
        /\ Worker(w, "capture", 0)
        /\ UNCHANGED <<routines, lock, purge, threads>>
    BY DEF Resubmit, At
  <1>2. /\ Types /\ OrderOk(ctx) /\ PairInv /\ Core(ctx, bus, routines, overtaken)
        /\ CtxOk(ctx) /\ ctx \in Contexts
        /\ "output" \in Directions /\ "capture" \in Directions /\ "Idle" \in States
    BY DEF IInv, Core, CtxOk, Directions, States
  <1>3. i \in Slots /\ State(ctx, "capture", i) = "Processing" /\ i = workers[w].slot
    BY <1>1, <1>2 DEF PairInv
  <1>4. PICK result \in SubmitResults(ctx, "capture", i) \cup (IF MayFail THEN {"unprepared"} ELSE {}) :
          /\ ctx' =
               IF result = "unprepared"
               THEN FatalStop(WithState(ctx, "capture", i, "Idle"))
               ELSE LET c == Submitted(ctx, "capture", i, result)
                    IN IF result \in {"sent", "cancelled"} THEN c
                       ELSE Strike(c, "capture", i)
          /\ SendTo("capture", i, result)
    BY DEF Resubmit
  <1> HIDE DEF i
  <1>5. result \in {"cancelled", "unusable", "unformatted", "refused", "sent", "unprepared"}
    BY <1>4, ResultsAre
  <1>6. /\ bus' = IF result = "sent" THEN bus \cup {<<"capture", i>>} ELSE bus
        /\ bus' \subseteq Requests /\ routines[<<"capture", i>>] \in Nat
        /\ overtaken' \in 0 .. MaxOvertaken /\ overtaken <= overtaken'
        /\ result \in {"sent", "refused"} => Counted(routines, "capture", i, overtaken, overtaken')
        /\ result \notin {"sent", "refused"} => overtaken' = overtaken
    BY <1>2, <1>3, <1>4, SentTo
  <1>7. State(ctx, "capture", i) # "Submitted" /\ State(ctx, "capture", i) \notin Live
    BY <1>3 DEF Live
  <1>8. result \in {"sent", "refused", "unusable", "unformatted"} =>
           ctx.running /\ ctx.state = "Running"
    BY <1>2, <1>4, MaySend
  \* What the submission and the judgement of its failure leave.
  <1> DEFINE Left(e, s) ==
               /\ Core(e, bus', routines, overtaken')
               /\ Rest(e) = Rest(ctx) /\ e.active = ctx.active /\ (ctx.pending => e.pending)
               /\ Words(e) = Words(ctx) \/ (e.state = "Stopping" /\ ~e.running)
               /\ e.order["output"] = ctx.order["output"]
               /\ State(e, "capture", i) = s
               /\ \A f \in Directions, j \in Slots :
                     (f # "capture" \/ j # i) => State(e, f, j) = State(ctx, f, j)
             Stays(e) == e.order["capture"] = ctx.order["capture"]
             Queues(e) == e.order["capture"] = Append(ctx.order["capture"], i)
  <1>9. ASSUME NEW s \in {"Idle", "Submitted", "Completed"}, Left(ctx', s),
               \/ s = "Idle" /\ Stays(ctx')
               \/ s \in Live /\ Queues(ctx') /\ ctx.running,
               bus' = bus \/ ctx.state = "Running"
        PROVE  IInv'
    <2>1. ctx'.running => ctx.running
      BY <1>9 DEF Words
    <2>2. \A f \in Directions : f # "capture" =>
             ctx'.order[f] = ctx.order[f] /\ LiveSlots(ctx', f) = LiveSlots(ctx, f)
      BY <1>2, <1>9 DEF LiveSlots, Directions
    <2>3. OrderOk(ctx')
      <3>1. CASE s = "Idle" /\ Stays(ctx')
        <4>1. LiveSlots(ctx', "capture") = LiveSlots(ctx, "capture")
          BY <1>2, <1>3, <1>9, <3>1 DEF LiveSlots, Live
        <4>2. \A f \in Directions :
                 ctx'.order[f] = ctx.order[f] /\ LiveSlots(ctx', f) = LiveSlots(ctx, f)
          BY <2>2, <3>1, <4>1
        <4> QED BY <1>2, <2>1, <4>2, OrderKept DEF OrderOk
      <3>2. CASE s \in Live /\ Queues(ctx') /\ ctx.running
        <4>1. LiveSlots(ctx', "capture") = LiveSlots(ctx, "capture") \cup {i}
          BY <1>2, <1>3, <1>9, <3>2 DEF LiveSlots
        <4> QED BY <1>2, <1>3, <1>7, <2>1, <2>2, <3>2, <4>1, MoreOrder
      <3> QED BY <1>9, <3>1, <3>2
    <2>4. Found(ctx', "output") => Found(ctx, "output")
      <3>1. SUFFICES ASSUME Found(ctx', "output") PROVE Found(ctx, "output")
        OBVIOUS
      <3>2. ctx'.order["output"] = ctx.order["output"] /\ ctx' \in Contexts
        BY <1>9 DEF Core, CtxOk
      <3>3. /\ ctx.order["output"] # <<>> /\ Head(ctx.order["output"]) \in Slots
            /\ State(ctx', "output", Head(ctx.order["output"])) = "Completed"
        BY <1>2, <3>1, <3>2, FoundIs
      <3>4. State(ctx, "output", Head(ctx.order["output"])) = "Completed"
        BY <1>2, <1>9, <3>3
      <3> QED BY <3>3, <3>4 DEF Found, State
    <2>5. ctx'.state \in {ctx.state, "Stopping"}
      BY <1>9 DEF Words
    <2>6. State(ctx', "capture", i) # "Processing"
      BY <1>9
    <2>7. \A d \in Directions, j \in Slots :
             State(ctx', d, j) = State(ctx, d, j)
               \/ (j = i /\ State(ctx', d, j) \notin {"Processing", "Uninitialized"})
      <3>1. ASSUME NEW d \in Directions, NEW j \in Slots
            PROVE  State(ctx', d, j) = State(ctx, d, j)
                     \/ (j = i /\ State(ctx', d, j) \notin {"Processing", "Uninitialized"})
        <4>1. CASE d = "capture" /\ j = i
          BY <1>9, <4>1
        <4>2. CASE d # "capture" \/ j # i
          BY <1>9, <4>2
        <4> QED BY <4>1, <4>2
      <3> QED BY <3>1
    <2>8. Hands(w, i, "capture", 0)
      BY <1>1, <1>3, <1>6, <1>9, <2>4, <2>5, <2>6, <2>7 DEF Hands
    <2>9. Core(ctx', bus', routines, overtaken')
      BY <1>9
    <2> QED BY <2>3, <2>8, <2>9, HandedOn
  <1>10. CASE result = "sent"
    <2> DEFINE e == Submitted(ctx, "capture", i, "sent")
               t == Sent(ctx.slots["capture"][i], ctx.gen)
    <2>1. Core(e, Carrying(bus, "capture", i), routines, overtaken')
      <3>1. Counted(routines, "capture", i, overtaken, overtaken')
        BY <1>6, <1>10
      <3> QED BY <1>2, <1>3, <1>6, <1>7, <3>1, SentIs
    <2>2. /\ e.slots["capture"][i] = t /\ t.state = "Submitted"
          /\ \A f \in Directions, j \in Slots :
                (f # "capture" \/ j # i) => e.slots[f][j] = ctx.slots[f][j]
      BY <1>2, <1>3, SentSlots
    <2>3. /\ e.order["capture"] = Append(ctx.order["capture"], i)
          /\ \A f \in Directions : f # "capture" => e.order[f] = ctx.order[f]
          /\ Words(e) = Words(ctx) /\ Rest(e) = Rest(ctx) /\ Items(e) = Items(ctx)
      BY <1>2, <1>3, SentSlots
    <2>4. ctx' = e /\ bus' = Carrying(bus, "capture", i)
      BY <1>4, <1>6, <1>10 DEF Carrying
    <2> HIDE DEF e, t
    <2>5. /\ State(e, "capture", i) = "Submitted"
          /\ \A f \in Directions, j \in Slots :
                (f # "capture" \/ j # i) => State(e, f, j) = State(ctx, f, j)
      BY <2>2 DEF State
    <2>6. Left(ctx', "Submitted") /\ Queues(ctx')
      BY <1>2, <2>1, <2>3, <2>4, <2>5 DEF Items
    <2>7. "Submitted" \in Live
      BY DEF Live
    <2> HIDE DEF Left, Queues
    <2> QED BY <1>8, <1>9, <1>10, <2>6, <2>7
  <1>11. CASE result = "unprepared"
    <2> DEFINE m == WithState(ctx, "capture", i, "Idle")
    <2>1. /\ Core(m, bus, routines, overtaken)
          /\ Words(m) = Words(ctx) /\ Rest(m) = Rest(ctx) /\ Items(m) = Items(ctx)
          /\ m.order = ctx.order
          /\ \A f \in Directions, j \in Slots :
                State(m, f, j) = IF f = "capture" /\ j = i THEN "Idle" ELSE State(ctx, f, j)
      BY <1>2, <1>3, <1>7, MovedIs
    <2>2. ctx' = FatalStop(m) /\ bus' = bus /\ overtaken' = overtaken
      BY <1>4, <1>6, <1>11
    <2> HIDE DEF m
    <2> DEFINE e == FatalStop(m)
    <2>3. /\ Core(e, bus, routines, overtaken)
          /\ e.state = "Stopping" /\ ~e.running /\ Rest(e) = Rest(m) /\ Items(e) = Items(m)
          /\ e.order = m.order
          /\ \A f \in Directions, j \in Slots : State(e, f, j) = State(m, f, j)
      BY <2>1, StoppedIs
    <2>4. ctx' = e
      BY <2>2
    <2> HIDE DEF e
    <2>5. Left(ctx', "Idle") /\ Stays(ctx')
      BY <1>2, <1>3, <2>1, <2>2, <2>3, <2>4 DEF Items
    <2> HIDE DEF Left, Stays
    <2> QED BY <1>9, <2>2, <2>5
  <1>12. CASE result \in {"cancelled", "unusable", "unformatted"}
    <2> DEFINE e == Submitted(ctx, "capture", i, result)
    <2>1. /\ Follows(e, ctx)
          /\ State(e, "capture", i) = "Idle"
          /\ e.order = ctx.order
          /\ \A f \in Directions, j \in Slots :
                (f # "capture" \/ j # i) => State(e, f, j) = State(ctx, f, j)
          /\ Words(e) = Words(ctx) /\ Rest(e) = Rest(ctx) /\ Items(e) = Items(ctx)
      BY <1>2, <1>3, <1>7, <1>12, UnsentIs
    <2>2. bus' = bus /\ overtaken' = overtaken
      BY <1>6, <1>12
    <2>3. ctx' = IF result = "cancelled" THEN e ELSE Strike(e, "capture", i)
      BY <1>4, <1>12
    <2> HIDE DEF e
    <2>4. Core(e, bus', routines, overtaken')
      BY <1>2, <2>1, <2>2, CoreFollows
    <2>5. Left(e, "Idle") /\ Stays(e)
      BY <1>2, <2>1, <2>4 DEF Items
    <2>6. CASE result = "cancelled"
      <3>1. ctx' = e
        BY <2>3, <2>6
      <3> HIDE DEF Left, Stays
      <3> QED BY <1>9, <2>2, <2>5, <3>1
    <2>7. CASE result # "cancelled"
      <3> DEFINE g == Strike(e, "capture", i)
      <3>1. CtxOk(e) /\ e.running
        BY <1>8, <1>12, <2>1, <2>4, <2>7 DEF Core, Words
      <3>2. /\ Follows(g, e)
            /\ \A f \in Directions, j \in Slots : State(g, f, j) = State(e, f, j)
            /\ g.order = e.order /\ Items(g) = Items(e) /\ Rest(g) = Rest(e)
            /\ Words(g) = Words(e) \/ (g.state = "Stopping" /\ ~g.running)
        BY <1>2, <1>3, <3>1, StrikeIs
      <3>3. ctx' = g
        BY <2>3, <2>7
      <3> HIDE DEF g
      <3>4. Core(g, bus', routines, overtaken')
        BY <2>4, <3>2, CoreFollows
      <3>5. Left(ctx', "Idle") /\ Stays(ctx')
        <4>1. /\ Rest(g) = Rest(ctx) /\ g.active = ctx.active /\ (ctx.pending => g.pending)
          BY <2>5, <3>2 DEF Items
        <4>2. Words(g) = Words(ctx) \/ (g.state = "Stopping" /\ ~g.running)
          BY <2>1, <3>2
        <4>3. /\ State(g, "capture", i) = "Idle"
              /\ \A f \in Directions, j \in Slots :
                    (f # "capture" \/ j # i) => State(g, f, j) = State(ctx, f, j)
          BY <1>2, <1>3, <2>1, <3>2
        <4>4. g.order = ctx.order
          BY <2>1, <3>2
        <4> QED BY <3>3, <3>4, <4>1, <4>2, <4>3, <4>4
      <3> HIDE DEF Left, Stays
      <3> QED BY <1>9, <2>2, <3>5
    <2> QED BY <2>6, <2>7
  <1>13. CASE result = "refused"
    <2> DEFINE e == Submitted(ctx, "capture", i, "refused")
               g == Strike(e, "capture", i)
    <2>1. Counted(routines, "capture", i, overtaken, overtaken')
      BY <1>6, <1>13
    <2>2. /\ Core(e, bus, routines, overtaken')
          /\ State(e, "capture", i) = "Completed"
          /\ e.order["capture"] = Append(ctx.order["capture"], i)
          /\ \A f \in Directions : f # "capture" => e.order[f] = ctx.order[f]
          /\ \A f \in Directions, j \in Slots :
                (f # "capture" \/ j # i) => State(e, f, j) = State(ctx, f, j)
          /\ Words(e) = Words(ctx) /\ Rest(e) = Rest(ctx)
          /\ e.pending /\ e.active = ctx.active /\ (e.queued <=> ctx.queued \/ ~ctx.active)
      <3>1. /\ Core(ctx, bus, routines, overtaken) /\ "capture" \in Directions /\ i \in Slots
            /\ State(ctx, "capture", i) # "Submitted" /\ routines[<<"capture", i>>] \in Nat
        BY <1>2, <1>3, <1>6, <1>7
      <3> QED BY <2>1, <3>1, RefusedIs
    <2>3. bus' = bus /\ ctx' = g
      BY <1>4, <1>6, <1>13
    <2> HIDE DEF e
    <2>4. CtxOk(e) /\ e.running
      BY <1>8, <1>13, <2>2 DEF Core, Words
    <2>5. /\ Follows(g, e)
          /\ \A f \in Directions, j \in Slots : State(g, f, j) = State(e, f, j)
          /\ g.order = e.order /\ Items(g) = Items(e) /\ Rest(g) = Rest(e)
          /\ Words(g) = Words(e) \/ (g.state = "Stopping" /\ ~g.running)
      BY <1>2, <1>3, <2>4, StrikeIs
    <2> HIDE DEF g
    <2>6. Core(g, bus', routines, overtaken')
      BY <2>2, <2>3, <2>5, CoreFollows
    <2>7. Left(ctx', "Completed") /\ Queues(ctx')
      BY <1>2, <1>3, <2>2, <2>3, <2>5, <2>6 DEF Items
    <2>8. "Completed" \in Live
      BY DEF Live
    <2> HIDE DEF Left, Queues
    <2> QED BY <1>8, <1>9, <1>13, <2>3, <2>7, <2>8
  <1> QED BY <1>5, <1>10, <1>11, <1>12, <1>13

LEMMA WorkerStepHolds ==
    ASSUME IInv, NEW w \in Workers, WorkerStep(w)
    PROVE  IInv'
  BY DispatchHolds, ClearPendingHolds, AcquireTransportHolds, NoOutputHolds, ProcessOutputHolds,
     ProcessCaptureHolds, SendOutputHolds, ResubmitHolds, ReleaseTransportHolds,
     FinishProcessHolds, RecheckPendingHolds
     DEF WorkerStep

(***************************************************************************)
(* The purge                                                               *)
(***************************************************************************)
\* A step that touches neither a slot nor a worker.
LEMMA CalmHolds ==
    ASSUME IInv, Types', Core(ctx', bus, routines, overtaken),
           ctx'.slots = ctx.slots, ctx'.order = ctx.order, Items(ctx') = Items(ctx),
           ctx'.running => ctx.running,
           bus' = bus, routines' = routines, workers' = workers, overtaken' = overtaken,
           \A w \in Workers : lock' = w <=> lock = w,
           lock' = "purge" <=> purge'.step = "target",
           StopInv', PnpInv'
    PROVE  IInv'
  <1>1. WorkInv /\ PairInv /\ FoundInv /\ OrderOk(ctx)
    BY DEF IInv
  <1>2. \A d \in Directions, i \in Slots : State(ctx', d, i) = State(ctx, d, i)
    BY DEF State
  <1>3. OrderOk(ctx')
    <2>1. \A d \in Directions : LiveSlots(ctx', d) = LiveSlots(ctx, d)
      BY <1>2 DEF LiveSlots
    <2> QED BY <1>1, <2>1, SameOrder
  <1>4. WorkInv'
    BY <1>1 DEF WorkInv, Items, At
  <1>5. PairInv'
    BY <1>1, <1>2 DEF PairInv, At, Directions
  <1>6. FoundInv'
    BY <1>1 DEF FoundInv, Found, Attended, NoRoutines, Items, At
  <1>7. Core(ctx', bus', routines', overtaken')
    OBVIOUS
  <1> QED BY <1>3, <1>4, <1>5, <1>6, <1>7 DEF IInv

\* What a step keeps that changes neither the state of the engine nor a flag that a purge reads.
LEMMA WordsKept ==
    ASSUME NEW c, NEW b, NEW r, NEW o, Core(c, b, r, o), NEW e \in Contexts,
           e.state = c.state, e.running = c.running, e.gen = c.gen,
           e.healthyGen = c.healthyGen, e.slots = c.slots, e.outstanding = c.outstanding
    PROVE  Core(e, b, r, o)
  <1>1. c.gen \in Nat
    BY DEF Core, CtxOk, Contexts
  <1>2. Follows(e, c)
    BY <1>1 DEF Core, CtxOk, Follows, State
  <1> QED BY <1>2, CoreFollows

LEMMA EnterPurgeHolds ==
    ASSUME IInv, EnterPurge
    PROVE  IInv'
  <1> DEFINE g == IF ctx.running THEN ctx.gen + 1 ELSE ctx.gen
             p == [purge EXCEPT !.step = "target"]
  <1>1. /\ purge.step = "enter" /\ lock = "none" /\ lock' = "purge" /\ purge' = p
        /\ ctx' = [ctx EXCEPT !.draining = TRUE, !.healthy = FALSE, !.state = "Stopping",
                              !.running = FALSE, !.gen = g]
        /\ UNCHANGED <<bus, routines, workers, threads, overtaken>>
    BY DEF EnterPurge, OnlyPurge, Closed
  <1>2. /\ Types /\ Core(ctx, bus, routines, overtaken) /\ ctx \in Contexts /\ StopInv /\ PnpInv
        /\ ctx.gen \in Nat
    BY DEF IInv, Core, CtxOk, Contexts
  <1>3. g \in Nat /\ g >= ctx.gen
    BY <1>2
  <1> HIDE DEF g
  <1>4. /\ ctx' \in Contexts /\ ctx'.gen = g /\ ctx'.state = "Stopping" /\ ~ctx'.running
        /\ ctx'.slots = ctx.slots /\ ctx'.order = ctx.order /\ ctx'.outstanding = ctx.outstanding
        /\ ctx'.healthyGen = ctx.healthyGen
    BY <1>1, <1>2, <1>3 DEF Contexts
  <1>5. /\ ctx'.draining /\ ~ctx'.healthy /\ Items(ctx') = Items(ctx)
        /\ ctx'.stopActive = ctx.stopActive /\ ctx'.prepared = ctx.prepared
        /\ ctx'.stopping = ctx.stopping
    BY <1>1, <1>2 DEF Contexts, Items
  <1>6. Follows(ctx', ctx)
    BY <1>3, <1>4 DEF Follows, State
  <1>7. Core(ctx', bus, routines, overtaken)
    BY <1>2, <1>6, CoreFollows
  <1>8. /\ purge' \in [by : Purgers \cup {"none"}, step : PurgeSteps, restart : BOOLEAN]
        /\ purge'.step = "target" /\ purge'.by = purge.by /\ purge'.restart = purge.restart
    <2>1. "target" \in PurgeSteps
      BY DEF PurgeSteps
    <2>2. p \in [by : Purgers \cup {"none"}, step : PurgeSteps, restart : BOOLEAN]
      BY <1>2, <2>1 DEF Types
    <2>3. p.step = "target" /\ p.by = purge.by /\ p.restart = purge.restart
      BY <1>2 DEF Types
    <2> HIDE DEF p
    <2> QED BY <1>1, <2>2, <2>3
  <1> HIDE DEF p
  <1>9. Types'
    BY <1>1, <1>2, <1>8 DEF Types
  <1>10. /\ \A w \in Workers : lock' = w <=> lock = w
         /\ lock' = "purge" <=> purge'.step = "target"
    BY <1>1, <1>8, WorkersApart
  <1>11. purge.by # "none" /\ threads["pnp"] \notin Gone
    BY <1>1, <1>2 DEF StopInv, PnpInv
  <1>12. StopInv'
    <2>1. ~AllAllocated(ctx') => NoneLive(ctx')
      BY <1>2, <1>4 DEF StopInv, AllAllocated, NoneLive, State
    <2> QED BY <1>1, <1>2, <1>4, <1>5, <1>8, <1>11, <2>1 DEF StopInv
  <1>13. PnpInv'
    BY <1>1, <1>2, <1>5, <1>8, <1>11 DEF PnpInv, Gone
  <1> QED BY <1>1, <1>4, <1>5, <1>7, <1>9, <1>10, <1>12, <1>13, CalmHolds

LEMMA PurgeTargetsHolds ==
    ASSUME IInv, PurgeTargets
    PROVE  IInv'
  <1> DEFINE p == [purge EXCEPT !.step = "flush"]
  <1>1. /\ purge.step = "target" /\ lock' = "none" /\ purge' = p /\ bus = {} /\ NoRoutines
        /\ UNCHANGED <<ctx, bus, routines, workers, threads, overtaken>>
    BY DEF PurgeTargets, OnlyPurge, TargetsDrained, NoRoutines
  <1>2. /\ Types /\ Core(ctx, bus, routines, overtaken) /\ WorkInv /\ StopInv /\ PnpInv
    BY DEF IInv
  <1>3. /\ purge' \in [by : Purgers \cup {"none"}, step : PurgeSteps, restart : BOOLEAN]
        /\ purge'.step = "flush" /\ purge'.by = purge.by /\ purge'.restart = purge.restart
    <2>1. "flush" \in PurgeSteps
      BY DEF PurgeSteps
    <2>2. p \in [by : Purgers \cup {"none"}, step : PurgeSteps, restart : BOOLEAN]
      BY <1>2, <2>1 DEF Types
    <2>3. p.step = "flush" /\ p.by = purge.by /\ p.restart = purge.restart
      BY <1>2 DEF Types
    <2> HIDE DEF p
    <2> QED BY <1>1, <2>2, <2>3
  <1> HIDE DEF p
  <1>4. Types'
    BY <1>1, <1>2, <1>3 DEF Types
  <1>5. /\ \A w \in Workers : lock' = w <=> lock = w
        /\ lock' = "purge" <=> purge'.step = "target"
    BY <1>1, <1>2, <1>3, WorkersApart DEF WorkInv
  <1>6. StopInv'
    BY <1>1, <1>2, <1>3 DEF StopInv, NoRoutines, AllAllocated, NoneLive, Quiet, ProcessIdle, At
  <1>7. PnpInv'
    BY <1>1, <1>2, <1>3 DEF PnpInv, Quiet, NoRoutines, ProcessIdle, At, AllAllocated
  <1>8. Core(ctx', bus, routines, overtaken) /\ ctx' = ctx
    BY <1>1, <1>2
  <1> QED BY <1>1, <1>4, <1>5, <1>6, <1>7, <1>8, CalmHolds

LEMMA FlushProcessHolds ==
    ASSUME IInv, FlushProcess
    PROVE  IInv'
  <1> DEFINE p == [purge EXCEPT !.step = "publish"]
  <1>1. /\ purge.step = "flush" /\ purge' = p /\ ProcessIdle
        /\ UNCHANGED <<ctx, lock, bus, routines, workers, threads, overtaken>>
    BY DEF FlushProcess, OnlyPurge, ProcessFlushed
  <1>2. /\ Types /\ Core(ctx, bus, routines, overtaken) /\ WorkInv /\ StopInv /\ PnpInv
    BY DEF IInv
  <1>3. /\ purge' \in [by : Purgers \cup {"none"}, step : PurgeSteps, restart : BOOLEAN]
        /\ purge'.step = "publish" /\ purge'.by = purge.by /\ purge'.restart = purge.restart
    <2>1. "publish" \in PurgeSteps
      BY DEF PurgeSteps
    <2>2. p \in [by : Purgers \cup {"none"}, step : PurgeSteps, restart : BOOLEAN]
      BY <1>2, <2>1 DEF Types
    <2>3. p.step = "publish" /\ p.by = purge.by /\ p.restart = purge.restart
      BY <1>2 DEF Types
    <2> HIDE DEF p
    <2> QED BY <1>1, <2>2, <2>3
  <1> HIDE DEF p
  <1>4. Types'
    BY <1>1, <1>2, <1>3 DEF Types
  <1>5. /\ \A w \in Workers : lock' = w <=> lock = w
        /\ lock' = "purge" <=> purge'.step = "target"
    BY <1>1, <1>2, <1>3 DEF WorkInv
  <1>6. StopInv'
    <2>1. ProcessIdle'
      BY <1>1 DEF ProcessIdle, At
    <2> QED BY <1>1, <1>2, <1>3, <2>1 DEF StopInv, NoRoutines, AllAllocated, NoneLive, Quiet
  <1>7. PnpInv'
    BY <1>1, <1>2, <1>3 DEF PnpInv, Quiet, NoRoutines, ProcessIdle, At, AllAllocated
  <1>8. Core(ctx', bus, routines, overtaken) /\ ctx' = ctx
    BY <1>1, <1>2
  <1> QED BY <1>1, <1>4, <1>5, <1>6, <1>7, <1>8, CalmHolds

LEMMA PairsAre ==
    /\ \A d \in Directions, i \in Slots :
         <<d, i>> \in Requests /\ <<d, i>>[1] = d /\ <<d, i>>[2] = i
    /\ \A r \in Requests : r[1] \in Directions /\ r[2] \in Slots /\ r = <<r[1], r[2]>>
  BY DEF Requests

\* Nothing is left when a purge has waited for the targets and for the work item: a slot that
\* still waited would have somebody who is going to look at it.
LEMMA PurgeDrains ==
    ASSUME IInv, Quiet, overtaken = 0, AllAllocated(ctx)
    PROVE  Quiescent(ctx)
  <1>1. /\ ctx \in Contexts /\ BusOk(ctx, bus) /\ FlightOk(ctx, bus, routines, overtaken)
        /\ OrderOk(ctx) /\ WorkInv /\ PairInv /\ FoundInv
        /\ "output" \in Directions /\ "capture" \in Directions
    BY DEF IInv, Core, CtxOk, Directions
  <1>2. /\ bus = {} /\ NoRoutines /\ ~ctx.queued /\ \A w \in Workers : workers[w].pc = "idle"
    BY DEF Quiet, ProcessIdle, At
  <1>3. ~ctx.active /\ ~ctx.pending
    BY <1>1, <1>2 DEF WorkInv, Working, Looking, Capturing, At
  <1>4. \A d \in Directions, i \in Slots : ~ctx.slots[d][i].inFlight
    <2> TAKE d \in Directions, i \in Slots
    <2>1. <<d, i>> \notin bus /\ routines[<<d, i>>] = 0
      BY <1>2, PairsAre DEF NoRoutines
    <2> QED BY <1>1, <2>1 DEF FlightOk
  <1>5. \A d \in Directions : ctx.outstanding[d] = 0
    <2>1. \A d \in Directions : InFlight(ctx, d) = {}
      BY <1>4 DEF InFlight
    <2> QED BY <1>1, <2>1, FS_EmptySet DEF FlightOk
  <1>6. \A d \in Directions : ~Found(ctx, d)
    BY <1>1, <1>2, <1>3 DEF FoundInv, Attended, Looking, Capturing, At
  <1>7. \A d \in Directions, i \in Slots : State(ctx, d, i) \in {"Idle", "Completed"}
    <2> TAKE d \in Directions, i \in Slots
    <2>1. ctx.slots[d][i] \in SlotType
      BY <1>1 DEF Contexts
    <2>2. State(ctx, d, i) \in States
      BY <2>1 DEF SlotType, State
    <2>3. State(ctx, d, i) # "Submitted"
      BY <1>1, <1>2 DEF BusOk
    <2>4. State(ctx, d, i) # "Processing"
      BY <1>1, <1>2 DEF PairInv, Directions, At
    <2>5. State(ctx, d, i) # "Uninitialized"
      <3>1. ctx.slots[<<d, i>>[1]][<<d, i>>[2]].state # "Uninitialized"
        BY PairsAre DEF AllAllocated
      <3> QED BY <3>1, PairsAre DEF State
    <2> QED BY <2>2, <2>3, <2>4, <2>5 DEF States
  <1>8. ASSUME NEW d \in Directions, NEW i \in Slots, State(ctx, d, i) = "Completed"
        PROVE  /\ ctx.order[d] # <<>> /\ Head(ctx.order[d]) \in Slots
               /\ State(ctx, d, Head(ctx.order[d])) = "Completed"
    <2>1. State(ctx, d, i) \in Live
      BY <1>8 DEF Live
    <2>2. /\ ctx.order[d] # <<>> /\ Head(ctx.order[d]) \in Slots
          /\ State(ctx, d, Head(ctx.order[d])) \in Live
      BY <1>1, <2>1, OldestWaits
    <2> QED BY <1>7, <2>2 DEF Live
  <1>9. \A i \in Slots : State(ctx, "output", i) = "Idle"
    <2> TAKE i \in Slots
    <2>1. CASE State(ctx, "output", i) = "Completed"
      <3>1. /\ ctx.order["output"] # <<>>
            /\ State(ctx, "output", Head(ctx.order["output"])) = "Completed"
        BY <1>1, <1>8, <2>1
      <3>2. Found(ctx, "output")
        BY <3>1 DEF Found, State
      <3> QED BY <1>1, <1>6, <3>2
    <2> QED BY <1>1, <1>7, <2>1
  <1>10. \A i \in Slots : State(ctx, "capture", i) = "Idle"
    <2> TAKE i \in Slots
    <2>1. CASE State(ctx, "capture", i) = "Completed"
      <3>1. /\ ctx.order["capture"] # <<>> /\ Head(ctx.order["capture"]) \in Slots
            /\ State(ctx, "capture", Head(ctx.order["capture"])) = "Completed"
        BY <1>1, <1>8, <2>1
      <3>2. Found(ctx, "capture")
        BY <1>9, <3>1 DEF Found, State
      <3> QED BY <1>1, <1>6, <3>2
    <2> QED BY <1>1, <1>7, <2>1
  <1>11. SlotsIdle(ctx)
    BY <1>4, <1>9, <1>10 DEF SlotsIdle, State, Requests, Directions
  <1> QED BY <1>3, <1>5, <1>11 DEF Quiescent

LEMMA ThreadIs ==
    ASSUME Types, NEW pc \in StopPlaces
    PROVE  LET t == [threads EXCEPT !["stop"] = pc]
           IN  t \in [stop : StopPlaces, pnp : PnpPlaces] /\ t["stop"] = pc /\ t["pnp"] = threads["pnp"]
  BY DEF Types

LEMMA PnpIs ==
    ASSUME Types, NEW pc \in PnpPlaces
    PROVE  LET t == [threads EXCEPT !["pnp"] = pc]
           IN  t \in [stop : StopPlaces, pnp : PnpPlaces] /\ t["pnp"] = pc /\ t["stop"] = threads["stop"]
  BY DEF Types

LEMMA PublishPurgeHolds ==
    ASSUME IInv, PublishPurge
    PROVE  IInv'
  <1>1. /\ purge.step = "publish" /\ lock = "none" /\ purge' = NoPurge
        /\ threads' = [t \in DOMAIN threads |-> IF t = purge.by THEN "after" ELSE threads[t]]
        /\ UNCHANGED <<bus, routines, lock, workers, overtaken>>
    BY DEF PublishPurge
  <1>2. PICK restarted \in BOOLEAN :
          /\ ctx' = Published(ctx, restarted)
          /\ restarted => purge.restart
    BY DEF PublishPurge
  <1>3. /\ Types /\ Core(ctx, bus, routines, overtaken) /\ ctx \in Contexts /\ CtxOk(ctx)
        /\ WorkInv /\ StopInv /\ PnpInv /\ ctx.gen \in Nat
    BY DEF IInv, Core, CtxOk, Contexts
  <1>4. /\ Quiet /\ ctx.draining /\ ctx.state = "Stopping" /\ purge.by # "none" /\ ~ctx.healthy
    BY <1>1, <1>3 DEF StopInv, Quiet, PnpInv
  <1> DEFINE s == IF Quiescent(ctx) THEN "Stopped" ELSE ctx.state
             h == IF restarted THEN TRUE ELSE ctx.healthy
             g == IF restarted THEN ctx.gen ELSE ctx.healthyGen
  <1>5. ctx' = [ctx EXCEPT !.draining = FALSE, !.state = s, !.healthy = h, !.healthyGen = g]
    <2>1. CASE restarted = TRUE
      BY <1>2, <2>1 DEF Published
    <2>2. CASE restarted = FALSE
      <3>1. ctx' = [ctx EXCEPT !.draining = FALSE, !.state = s]
        BY <1>2, <2>2 DEF Published
      <3>2. h = ctx.healthy /\ g = ctx.healthyGen
        BY <2>2
      <3> HIDE DEF s, h, g
      <3> QED BY <1>3, <3>1, <3>2 DEF Contexts
    <2> QED BY <2>1, <2>2
  <1>6. /\ s \in {"Stopped", "Stopping"} /\ h \in BOOLEAN /\ g \in Nat /\ g <= ctx.gen
        /\ s = "Stopped" <=> Quiescent(ctx)
        /\ ~purge.restart => ~h
    <2>1. ctx.healthyGen \in Nat /\ ctx.healthyGen <= ctx.gen /\ ctx.healthy \in BOOLEAN
      BY <1>3 DEF CtxOk, Contexts
    <2>2. g \in Nat /\ g <= ctx.gen
      BY <1>3, <2>1
    <2>3. h \in BOOLEAN /\ (~purge.restart => ~h)
      BY <1>2, <1>4, <2>1
    <2>4. s \in {"Stopped", "Stopping"} /\ (s = "Stopped" <=> Quiescent(ctx))
      BY <1>4
    <2> QED BY <2>2, <2>3, <2>4
  <1> HIDE DEF s, h, g
  <1>7. /\ ctx' \in Contexts /\ ctx'.state = s /\ ctx'.healthyGen = g /\ ctx'.gen = ctx.gen
        /\ ctx'.slots = ctx.slots /\ ctx'.order = ctx.order /\ ctx'.outstanding = ctx.outstanding
        /\ ctx'.running = ctx.running
    BY <1>3, <1>5, <1>6 DEF Contexts
  <1>8. /\ ~ctx'.draining /\ Items(ctx') = Items(ctx) /\ (ctx'.healthy <=> h)
        /\ ctx'.stopActive = ctx.stopActive /\ ctx'.prepared = ctx.prepared
        /\ ctx'.stopping = ctx.stopping
    BY <1>3, <1>5 DEF Contexts, Items
  <1>9. \A d \in Directions, i \in Slots : State(ctx', d, i) = State(ctx, d, i)
    BY <1>7 DEF State
  <1>10. ~ctx.running
    BY <1>3, <1>4 DEF CtxOk
  <1>11. Core(ctx', bus, routines, overtaken)
    <2>1. CtxOk(ctx')
      BY <1>3, <1>6, <1>7, <1>10 DEF CtxOk
    <2>2. BusOk(ctx', bus)
      BY <1>3, <1>7, <1>9, BusSame DEF Core
    <2>3. \A d \in Directions : InFlight(ctx', d) = InFlight(ctx, d)
      BY <1>7, FlightSame
    <2>4. FlightOk(ctx', bus, routines, overtaken)
      BY <1>3, <1>7, <2>3 DEF Core, FlightOk
    <2> QED BY <2>1, <2>2, <2>4 DEF Core
  <1>12. /\ threads' \in [stop : StopPlaces, pnp : PnpPlaces]
         /\ threads'["stop"] = IF purge.by = "stop" THEN "after" ELSE threads["stop"]
         /\ threads'["pnp"] = IF purge.by = "pnp" THEN "after" ELSE threads["pnp"]
    <2>1. /\ threads \in [stop : StopPlaces, pnp : PnpPlaces]
          /\ DOMAIN threads = {"stop", "pnp"}
      BY <1>3 DEF Types
    <2>2. "after" \in StopPlaces /\ "after" \in PnpPlaces
      BY DEF StopPlaces, PnpPlaces
    <2>3. /\ threads'["stop"] = IF purge.by = "stop" THEN "after" ELSE threads["stop"]
          /\ threads'["pnp"] = IF purge.by = "pnp" THEN "after" ELSE threads["pnp"]
      BY <1>1, <2>1
    <2>4. threads' = [stop |-> threads'["stop"], pnp |-> threads'["pnp"]]
      BY <1>1, <2>1
    <2>5. threads'["stop"] \in StopPlaces /\ threads'["pnp"] \in PnpPlaces
      BY <2>1, <2>2, <2>3
    <2> QED BY <2>3, <2>4, <2>5
  <1>13. /\ purge' \in [by : Purgers \cup {"none"}, step : PurgeSteps, restart : BOOLEAN]
         /\ purge'.by = "none" /\ purge'.step = "none"
    BY <1>1 DEF NoPurge, PurgeSteps
  <1>14. Types'
    BY <1>1, <1>3, <1>12, <1>13 DEF Types
  <1>15. /\ \A w \in Workers : lock' = w <=> lock = w
         /\ lock' = "purge" <=> purge'.step = "target"
    BY <1>1, <1>13
  <1>16. Quiet'
    BY <1>1, <1>4, <1>8 DEF Quiet, NoRoutines, ProcessIdle, Items, At
  <1>17. AllAllocated(ctx') <=> AllAllocated(ctx)
    BY <1>7 DEF AllAllocated
  <1>18. s = "Stopped" => /\ NoneLive(ctx')
                          /\ \A d \in Directions, i \in Slots : ~ctx'.slots[d][i].inFlight
    <2> SUFFICES ASSUME s = "Stopped", NEW d \in Directions, NEW i \in Slots
                 PROVE  State(ctx', d, i) = "Idle" /\ ~ctx'.slots[d][i].inFlight
      BY DEF NoneLive
    <2>1. /\ ctx.slots[<<d, i>>[1]][<<d, i>>[2]].state = "Idle"
          /\ ~ctx.slots[<<d, i>>[1]][<<d, i>>[2]].inFlight
      BY <1>6, PairsAre DEF Quiescent, SlotsIdle
    <2> QED BY <1>7, <2>1, PairsAre DEF State
  <1>19. ~AllAllocated(ctx') => NoneLive(ctx') /\ ctx'.state # "Running"
    BY <1>3, <1>6, <1>7, <1>9, <1>17 DEF StopInv, NoneLive
  <1>20. threads["pnp"] \notin Gone
    BY <1>3, <1>4 DEF PnpInv
  <1>21. StopInv'
    <2>1. ctx'.stopActive <=> threads'["stop"] # "idle"
      BY <1>3, <1>8, <1>12 DEF StopInv
    <2>2. threads'["stop"] # "purging" /\ threads'["pnp"] # "purging"
      BY <1>3, <1>12 DEF StopInv
    <2> QED BY <1>7, <1>8, <1>13, <1>16, <1>18, <1>19, <2>1, <2>2 DEF StopInv
  <1>22. PnpInv'
    <2>1. threads'["pnp"] # "present" => ctx'.stopping /\ ~ctx'.prepared
      <3>1. threads'["pnp"] # "present" => threads["pnp"] # "present"
        BY <1>3, <1>12 DEF StopInv
      <3> QED BY <1>3, <1>8, <3>1 DEF PnpInv
    <2>2. threads'["pnp"] \in Gone => threads'["pnp"] = "after" /\ ~ctx'.healthy
      BY <1>3, <1>6, <1>8, <1>12, <1>20 DEF PnpInv
    <2>3. overtaken' = 0 /\ AllAllocated(ctx') => ctx'.state = "Stopped"
      BY <1>1, <1>4, <1>6, <1>7, <1>17, PurgeDrains
    <2>4. ctx'.state # "Running"
      BY <1>6, <1>7
    <2> QED BY <1>8, <1>12, <1>13, <1>16, <1>20, <2>1, <2>2, <2>3, <2>4 DEF PnpInv, Gone
  <1> QED BY <1>1, <1>7, <1>8, <1>10, <1>11, <1>14, <1>15, <1>21, <1>22, CalmHolds

(***************************************************************************)
(* The stop work item, and the callers that do not start the engine         *)
(***************************************************************************)
\* A purge is asked for, or a flag changes that only the callers read.
LEMMA PurgeByIs ==
    ASSUME NEW t \in Purgers, NEW restart \in BOOLEAN, PurgeBy(t, restart)
    PROVE  /\ purge' \in [by : Purgers \cup {"none"}, step : PurgeSteps, restart : BOOLEAN]
           /\ purge'.by = t /\ purge'.step = "enter" /\ purge'.restart = restart
  <1>1. "enter" \in PurgeSteps
    BY DEF PurgeSteps
  <1> QED BY <1>1 DEF PurgeBy

\* What a flag step leaves: nothing that the slots or the purge depend on.
SameEngine ==
    /\ ctx' \in Contexts
    /\ ctx'.state = ctx.state /\ ctx'.running = ctx.running /\ ctx'.gen = ctx.gen
    /\ ctx'.healthyGen = ctx.healthyGen /\ ctx'.slots = ctx.slots
    /\ ctx'.outstanding = ctx.outstanding /\ ctx'.order = ctx.order
    /\ Items(ctx') = Items(ctx) /\ ctx'.draining = ctx.draining
    /\ ctx'.healthy => ctx.healthy
    /\ bus' = bus /\ routines' = routines /\ lock' = lock /\ workers' = workers
    /\ overtaken' = overtaken

LEMMA FlagHolds ==
    ASSUME IInv, SameEngine, ctx'.stopActive <=> threads'["stop"] # "idle",
           purge' \in [by : Purgers \cup {"none"}, step : PurgeSteps, restart : BOOLEAN],
           threads' \in [stop : StopPlaces, pnp : PnpPlaces],
           \/ purge' = purge
           \/ purge.by = "none" /\ purge'.by # "none" /\ purge'.step = "enter",
           purge'.by = "stop" <=> threads'["stop"] = "purging",
           purge'.by = "pnp" <=> threads'["pnp"] = "purging",
           purge'.by = "pnp" => ~purge'.restart,
           threads'["pnp"] # "present" => ctx'.stopping /\ ~ctx'.prepared,
           \/ threads'["pnp"] = threads["pnp"] /\ (threads["pnp"] \in Gone => purge' = purge)
           \/ threads'["pnp"] = "purging"
           \/ threads'["pnp"] = "flushed" /\ threads["pnp"] = "after" /\ purge' = purge
    PROVE  IInv'
  <1>1. /\ Types /\ Core(ctx, bus, routines, overtaken) /\ ctx \in Contexts
        /\ WorkInv /\ StopInv /\ PnpInv
    BY DEF IInv, Core, CtxOk
  <1>2. Core(ctx', bus, routines, overtaken)
    BY <1>1, WordsKept DEF SameEngine
  <1>3. Types'
    BY <1>1 DEF Types, SameEngine
  <1>4. /\ \A w \in Workers : lock' = w <=> lock = w
        /\ lock' = "purge" <=> purge'.step = "target"
    BY <1>1 DEF WorkInv, StopInv, SameEngine
  <1>5. /\ Quiet' <=> Quiet
        /\ ProcessIdle' <=> ProcessIdle
        /\ NoRoutines' <=> NoRoutines
        /\ AllAllocated(ctx') <=> AllAllocated(ctx)
        /\ NoneLive(ctx') <=> NoneLive(ctx)
    BY DEF Quiet, ProcessIdle, NoRoutines, At, AllAllocated, NoneLive, State, Items, SameEngine
  <1>6. \/ purge' = purge
        \/ /\ purge.step = "none" /\ purge'.step = "enter" /\ purge'.by # "none"
           /\ ~ctx.draining
    BY <1>1 DEF StopInv
  <1>7. StopInv'
    <2>1. CASE purge' = purge
      BY <1>1, <1>5, <2>1 DEF StopInv, SameEngine
    <2>2. CASE purge.step = "none" /\ purge'.step = "enter" /\ purge'.by # "none" /\ ~ctx.draining
      BY <1>1, <1>5, <2>2 DEF StopInv, SameEngine
    <2> QED BY <1>6, <2>1, <2>2
  <1>8. ctx'.draining => ~ctx'.healthy
    BY <1>1 DEF PnpInv, SameEngine
  <1>9. PnpInv'
    <2>1. CASE threads'["pnp"] = threads["pnp"] /\ (threads["pnp"] \in Gone => purge' = purge)
      BY <1>1, <1>5, <1>8, <2>1 DEF PnpInv, Gone, SameEngine
    <2>2. CASE threads'["pnp"] = "purging"
      BY <1>1, <1>5, <1>8, <2>2 DEF PnpInv, Gone, SameEngine
    <2>3. CASE threads'["pnp"] = "flushed" /\ threads["pnp"] = "after" /\ purge' = purge
      BY <1>1, <1>5, <1>8, <2>3 DEF PnpInv, Gone, SameEngine
    <2> QED BY <2>1, <2>2, <2>3
  <1> QED BY <1>2, <1>3, <1>4, <1>7, <1>9, CalmHolds DEF SameEngine

LEMMA BeginStopHolds ==
    ASSUME IInv, BeginStop
    PROVE  IInv'
  <1>1. /\ threads["stop"] = "idle" /\ ctx' = [ctx EXCEPT !.stopActive = TRUE]
        /\ threads' = [threads EXCEPT !["stop"] = "purge"]
        /\ UNCHANGED <<bus, routines, lock, workers, purge, overtaken>>
    BY DEF BeginStop, Thread, OnlyThreads
  <1>2. Types /\ ctx \in Contexts /\ StopInv /\ PnpInv
    BY DEF IInv, Core, CtxOk
  <1>3. /\ threads' \in [stop : StopPlaces, pnp : PnpPlaces]
        /\ threads'["stop"] = "purge" /\ threads'["pnp"] = threads["pnp"]
    BY <1>1, <1>2, ThreadIs DEF StopPlaces
  <1>4. /\ SameEngine /\ ctx'.stopActive /\ ctx'.stopping = ctx.stopping
        /\ ctx'.prepared = ctx.prepared
    BY <1>1, <1>2 DEF SameEngine, Contexts, Items
  <1>5. purge \in [by : Purgers \cup {"none"}, step : PurgeSteps, restart : BOOLEAN]
    BY <1>2 DEF Types
  <1> QED BY <1>1, <1>2, <1>3, <1>4, <1>5, FlagHolds DEF StopInv, PnpInv

LEMMA PurgeByStopHolds ==
    ASSUME IInv, PurgeByStop
    PROVE  IInv'
  <1>1. /\ threads["stop"] = "purge" /\ purge.by = "none"
        /\ UNCHANGED <<bus, routines, lock, workers, overtaken>>
    BY DEF PurgeByStop
  <1>2. Types /\ ctx \in Contexts /\ StopInv /\ PnpInv
    BY DEF IInv, Core, CtxOk
  <1>3. purge \in [by : Purgers \cup {"none"}, step : PurgeSteps, restart : BOOLEAN]
    BY <1>2 DEF Types
  <1>4. CASE PurgeRefused(ctx)
    <2>1. /\ ctx' = [ctx EXCEPT !.healthy = FALSE] /\ purge' = purge
          /\ threads' = [threads EXCEPT !["stop"] = "after"]
      BY <1>4 DEF PurgeByStop, Thread
    <2>2. /\ threads' \in [stop : StopPlaces, pnp : PnpPlaces]
          /\ threads'["stop"] = "after" /\ threads'["pnp"] = threads["pnp"]
      BY <1>2, <2>1, ThreadIs DEF StopPlaces
    <2>3. /\ SameEngine /\ ctx'.stopActive = ctx.stopActive /\ ctx'.stopping = ctx.stopping
          /\ ctx'.prepared = ctx.prepared
      BY <1>1, <1>2, <2>1 DEF SameEngine, Contexts, Items
    <2> QED BY <1>1, <1>2, <1>3, <2>1, <2>2, <2>3, FlagHolds DEF StopInv, PnpInv
  <1>5. CASE ~PurgeRefused(ctx)
    <2>1. /\ ctx' = ctx /\ PurgeBy("stop", TRUE)
          /\ threads' = [threads EXCEPT !["stop"] = "purging"]
      BY <1>5 DEF PurgeByStop, Thread
    <2>2. /\ threads' \in [stop : StopPlaces, pnp : PnpPlaces]
          /\ threads'["stop"] = "purging" /\ threads'["pnp"] = threads["pnp"]
      BY <1>2, <2>1, ThreadIs DEF StopPlaces
    <2>3. /\ purge' \in [by : Purgers \cup {"none"}, step : PurgeSteps, restart : BOOLEAN]
          /\ purge'.by = "stop" /\ purge'.step = "enter"
      BY <2>1, PurgeByIs DEF Purgers
    <2>4. SameEngine
      BY <1>1, <1>2, <2>1 DEF SameEngine
    <2>5. threads["pnp"] = "present"
      <3>1. threads["pnp"] # "purging"
        BY <1>1, <1>2 DEF StopInv
      <3> QED BY <1>2, <1>5 DEF PnpInv, PurgeRefused
    <2> QED BY <1>1, <1>2, <2>1, <2>2, <2>3, <2>4, <2>5, FlagHolds DEF StopInv, PnpInv, Gone
  <1> QED BY <1>4, <1>5

LEMMA EndStopHolds ==
    ASSUME IInv, EndStop
    PROVE  IInv'
  <1>1. /\ threads["stop"] = "after"
        /\ ctx' = [ctx EXCEPT !.stopPending = FALSE, !.stopActive = FALSE]
        /\ threads' = [threads EXCEPT !["stop"] = "idle"]
        /\ UNCHANGED <<bus, routines, lock, workers, purge, overtaken>>
    BY DEF EndStop, StopEnded, Thread, OnlyThreads
  <1>2. Types /\ ctx \in Contexts /\ StopInv /\ PnpInv
    BY DEF IInv, Core, CtxOk
  <1>3. /\ threads' \in [stop : StopPlaces, pnp : PnpPlaces]
        /\ threads'["stop"] = "idle" /\ threads'["pnp"] = threads["pnp"]
    BY <1>1, <1>2, ThreadIs DEF StopPlaces
  <1>4. /\ SameEngine /\ ~ctx'.stopActive /\ ctx'.stopping = ctx.stopping
        /\ ctx'.prepared = ctx.prepared
    BY <1>1, <1>2 DEF SameEngine, Contexts, Items
  <1>5. purge \in [by : Purgers \cup {"none"}, step : PurgeSteps, restart : BOOLEAN]
    BY <1>2 DEF Types
  <1> QED BY <1>1, <1>2, <1>3, <1>4, <1>5, FlagHolds DEF StopInv, PnpInv

\* The stop request is withdrawn or made, or nothing happens at all.
LEMMA RequestHolds ==
    ASSUME IInv, Run \/ RequestStop \/ UNCHANGED vars
    PROVE  IInv'
  <1>1. PICK s \in BOOLEAN :
          /\ ctx' = ctx \/ ctx' = [ctx EXCEPT !.stopRequested = s]
          /\ UNCHANGED <<bus, routines, lock, workers, purge, threads, overtaken>>
    BY DEF Run, RequestStop, OnlyThreads, vars
  <1>2. Types /\ ctx \in Contexts /\ StopInv /\ PnpInv
    BY DEF IInv, Core, CtxOk
  <1>3. /\ SameEngine /\ ctx'.stopActive = ctx.stopActive /\ ctx'.stopping = ctx.stopping
        /\ ctx'.prepared = ctx.prepared
    BY <1>1, <1>2 DEF SameEngine, Contexts, Items
  <1>4. /\ purge \in [by : Purgers \cup {"none"}, step : PurgeSteps, restart : BOOLEAN]
        /\ threads \in [stop : StopPlaces, pnp : PnpPlaces]
    BY <1>2 DEF Types
  <1> QED BY <1>1, <1>2, <1>3, <1>4, FlagHolds DEF StopInv, PnpInv

LEMMA PurgeByCallerHolds ==
    ASSUME IInv, PurgeByCaller
    PROVE  IInv'
  <1>1. purge.by = "none" /\ UNCHANGED <<bus, routines, lock, workers, threads, overtaken>>
    BY DEF PurgeByCaller, OnlyPurge
  <1>2. Types /\ ctx \in Contexts /\ StopInv /\ PnpInv
    BY DEF IInv, Core, CtxOk
  <1>3. /\ purge \in [by : Purgers \cup {"none"}, step : PurgeSteps, restart : BOOLEAN]
        /\ threads \in [stop : StopPlaces, pnp : PnpPlaces]
    BY <1>2 DEF Types
  <1>4. CASE PurgeRefused(ctx)
    <2>1. ctx' = [ctx EXCEPT !.healthy = FALSE] /\ purge' = purge
      BY <1>4 DEF PurgeByCaller
    <2>2. /\ SameEngine /\ ctx'.stopActive = ctx.stopActive /\ ctx'.stopping = ctx.stopping
          /\ ctx'.prepared = ctx.prepared
      BY <1>1, <1>2, <2>1 DEF SameEngine, Contexts, Items
    <2> QED BY <1>1, <1>2, <1>3, <2>1, <2>2, FlagHolds DEF StopInv, PnpInv
  <1>5. CASE ~PurgeRefused(ctx)
    <2>1. ctx' = ctx /\ PurgeBy("other", TRUE)
      BY <1>5 DEF PurgeByCaller
    <2>2. /\ purge' \in [by : Purgers \cup {"none"}, step : PurgeSteps, restart : BOOLEAN]
          /\ purge'.by = "other" /\ purge'.step = "enter"
      BY <2>1, PurgeByIs DEF Purgers
    <2>3. SameEngine
      BY <1>1, <1>2, <2>1 DEF SameEngine
    <2>4. threads["pnp"] = "present" /\ threads["stop"] # "purging"
      <3>1. threads["pnp"] # "purging" /\ threads["stop"] # "purging"
        BY <1>1, <1>2 DEF StopInv
      <3> QED BY <1>2, <1>5, <3>1 DEF PnpInv, PurgeRefused
    <2> QED BY <1>1, <1>2, <1>3, <2>1, <2>2, <2>3, <2>4, FlagHolds DEF StopInv, PnpInv, Gone
  <1> QED BY <1>4, <1>5

(***************************************************************************)
(* The PnP callbacks                                                       *)
(***************************************************************************)
LEMMA ReleaseHardwareHolds ==
    ASSUME IInv, ReleaseHardware
    PROVE  IInv'
  <1>1. /\ threads["pnp"] = "present" /\ purge.by = "none" /\ PurgeBy("pnp", FALSE)
        /\ ctx' = [ctx EXCEPT !.stopping = TRUE, !.prepared = FALSE, !.stopRequested = TRUE]
        /\ threads' = [threads EXCEPT !["pnp"] = "purging"]
        /\ UNCHANGED <<bus, routines, lock, workers, overtaken>>
    BY DEF ReleaseHardware, Thread
  <1>2. Types /\ ctx \in Contexts /\ StopInv /\ PnpInv
    BY DEF IInv, Core, CtxOk
  <1>3. /\ threads' \in [stop : StopPlaces, pnp : PnpPlaces]
        /\ threads'["pnp"] = "purging" /\ threads'["stop"] = threads["stop"]
    BY <1>1, <1>2, PnpIs DEF PnpPlaces
  <1>4. /\ SameEngine /\ ctx'.stopActive = ctx.stopActive /\ ctx'.stopping
        /\ ~ctx'.prepared
    BY <1>1, <1>2 DEF SameEngine, Contexts, Items
  <1>5. /\ purge' \in [by : Purgers \cup {"none"}, step : PurgeSteps, restart : BOOLEAN]
        /\ purge'.by = "pnp" /\ purge'.step = "enter" /\ ~purge'.restart
    BY <1>1, PurgeByIs DEF Purgers
  <1>6. threads["stop"] # "purging"
    BY <1>1, <1>2 DEF StopInv
  <1> QED BY <1>1, <1>2, <1>3, <1>4, <1>5, <1>6, FlagHolds DEF StopInv, PnpInv

LEMMA FlushForDestroyHolds ==
    ASSUME IInv, FlushForDestroy
    PROVE  IInv'
  <1>1. /\ threads["pnp"] = "after" /\ ctx' = ctx
        /\ threads' = [threads EXCEPT !["pnp"] = "flushed"]
        /\ UNCHANGED <<bus, routines, lock, workers, purge, overtaken>>
    BY DEF FlushForDestroy, Thread, OnlyThreads
  <1>2. Types /\ ctx \in Contexts /\ StopInv /\ PnpInv
    BY DEF IInv, Core, CtxOk
  <1>3. /\ threads' \in [stop : StopPlaces, pnp : PnpPlaces]
        /\ threads'["pnp"] = "flushed" /\ threads'["stop"] = threads["stop"]
    BY <1>1, <1>2, PnpIs DEF PnpPlaces
  <1>4. SameEngine
    BY <1>1, <1>2 DEF SameEngine
  <1>5. purge \in [by : Purgers \cup {"none"}, step : PurgeSteps, restart : BOOLEAN]
    BY <1>2 DEF Types
  <1> QED BY <1>1, <1>2, <1>3, <1>4, <1>5, FlagHolds DEF StopInv, PnpInv

\* A slot that has just been allocated, or not yet.
Unused(t) ==
    /\ t \in SlotType /\ t.state \in {"Idle", "Uninitialized"} /\ ~t.inFlight
    /\ t.gen = 0 /\ t.sentIn = 0 /\ t.failures = 0

LEMMA FreshIs ==
    /\ Unused(FreshSlot) /\ FreshSlot.state = "Idle"
    /\ Unused([FreshSlot EXCEPT !.state = "Uninitialized"])
  <1>1. 0 \in 0 .. RetryLimit + 1 /\ 0 \in Nat
    BY EngineConstants
  <1>2. /\ "Idle" \in States /\ "Uninitialized" \in States
        /\ FALSE \in BOOLEAN /\ "data" \in {"data", "empty", "error"}
    BY DEF States
  <1>3. FreshSlot \in SlotType
    BY <1>1, <1>2 DEF FreshSlot, SlotType
  <1>4. [FreshSlot EXCEPT !.state = "Uninitialized"] \in SlotType
    BY <1>2, <1>3 DEF SlotType
  <1> QED BY <1>3, <1>4 DEF Unused, FreshSlot

LEMMA UnusedSlots ==
    ASSUME NEW s, s = FreshSlots \/ \E n : s = Allocated(n)
    PROVE  /\ s \in [Directions -> [Slots -> SlotType]]
           /\ \A d \in Directions, i \in Slots : Unused(s[d][i])
  <1>1. CASE s = FreshSlots
    BY <1>1, FreshIs DEF FreshSlots, Unused
  <1>2. CASE \E n : s = Allocated(n)
    <2>1. PICK n : s = Allocated(n)
      BY <1>2
    <2> DEFINE t(d, i) == IF 2 * i - (IF d = "capture" THEN 1 ELSE 0) <= n THEN FreshSlot
                          ELSE [FreshSlot EXCEPT !.state = "Uninitialized"]
    <2>2. s = [d \in Directions |-> [i \in Slots |-> t(d, i)]]
      BY <2>1 DEF Allocated
    <2>3. \A d, i : Unused(t(d, i))
      BY FreshIs
    <2> HIDE DEF t
    <2> QED BY <2>2, <2>3 DEF Unused
  <1> QED BY <1>1, <1>2

\* The slots of a stopped engine are replaced.
LEMMA ReplacedHolds ==
    ASSUME IInv, ctx.state = "Stopped", ctx' \in Contexts, ctx'.state = "Stopped",
           ctx'.running = ctx.running, ctx'.gen = ctx.gen, ctx'.outstanding = ctx.outstanding,
           ctx'.healthyGen <= ctx.gen,
           \A d \in Directions, i \in Slots : Unused(ctx'.slots[d][i]),
           ctx'.order = ctx.order \/ ctx'.order = [d \in Directions |-> <<>>],
           Items(ctx') = Items(ctx), ctx'.draining = ctx.draining,
           ctx'.stopActive = ctx.stopActive,
           UNCHANGED <<bus, routines, lock, workers, purge, overtaken>>,
           threads' \in [stop : StopPlaces, pnp : PnpPlaces],
           threads'["stop"] = threads["stop"], threads["pnp"] \in {"flushed", "released"},
           \/ threads'["pnp"] = "present"
           \/ threads'["pnp"] = "released" /\ ctx'.stopping /\ ~ctx'.prepared /\ ~ctx'.healthy
    PROVE  IInv'
  <1>1. /\ Types /\ ctx \in Contexts /\ CtxOk(ctx) /\ FlightOk(ctx, bus, routines, overtaken)
        /\ OrderOk(ctx) /\ WorkInv /\ PairInv /\ StopInv /\ PnpInv
    BY DEF IInv, Core, CtxOk
  <1>2. /\ Quiet /\ NoneLive(ctx) /\ ~ctx.draining
        /\ \A d \in Directions, i \in Slots : ~ctx.slots[d][i].inFlight
    BY <1>1 DEF StopInv
  <1>3. /\ purge.by = "none" /\ purge.step = "none"
    BY <1>1 DEF PnpInv, StopInv, Gone
  <1>4. \A d \in Directions, i \in Slots :
          /\ State(ctx', d, i) \in {"Idle", "Uninitialized"} /\ ~ctx'.slots[d][i].inFlight
          /\ ctx'.slots[d][i].gen = 0 /\ ctx'.slots[d][i].sentIn = 0
          /\ ctx'.slots[d][i].failures = 0
    BY DEF Unused, State
  <1>5. Types'
    BY <1>1 DEF Types
  <1>6. CtxOk(ctx')
    <2>1. RetryLimit \in Nat /\ ctx.gen \in Nat
      BY <1>1, EngineConstants DEF Contexts
    <2>2. 0 <= RetryLimit /\ 0 <= ctx.gen
      BY <2>1
    <2> QED BY <1>1, <1>4, <2>2 DEF CtxOk
  <1>7. BusOk(ctx', bus')
    BY <1>2, <1>4 DEF BusOk, Quiet
  <1>8. FlightOk(ctx', bus', routines', overtaken')
    <2>1. \A d \in Directions : InFlight(ctx', d) = InFlight(ctx, d)
      BY <1>2, <1>4 DEF InFlight
    <2> QED BY <1>1, <1>4, <2>1 DEF FlightOk
  <1>9. OrderOk(ctx')
    <2>1. \A d \in Directions : LiveSlots(ctx', d) = {} /\ LiveSlots(ctx, d) = {}
      BY <1>2, <1>4 DEF LiveSlots, Live, NoneLive
    <2>2. CASE ctx'.order = ctx.order
      BY <1>1, <2>1, <2>2, SameOrder
    <2>3. CASE ctx'.order = [d \in Directions |-> <<>>]
      <3>1. \A d \in Directions : ctx'.order[d] = <<>>
        BY <2>3
      <3>2. \A r : InOrder(<<>>, {}, r)
        BY DEF InOrder
      <3> QED BY <2>1, <3>1, <3>2 DEF OrderOk
    <2> QED BY <2>2, <2>3
  <1>10. WorkInv'
    BY <1>1 DEF WorkInv, Items, At
  <1>11. \A w \in Workers : workers[w].pc = "idle"
    BY <1>2 DEF Quiet, ProcessIdle, At
  <1>12. PairInv'
    BY <1>4, <1>11 DEF PairInv, At, Directions
  <1>13. FoundInv'
    <2> SUFFICES ASSUME NEW d \in Directions, Found(ctx', d) PROVE FALSE
      BY DEF FoundInv
    <2>1. Head(ctx'.order[d]) \in Slots /\ State(ctx', d, Head(ctx'.order[d])) = "Completed"
      BY FoundIs
    <2> QED BY <1>4, <2>1
  <1>14. Quiet'
    BY <1>2 DEF Quiet, NoRoutines, ProcessIdle, At, Items
  <1>15. NoneLive(ctx')
    BY <1>4 DEF NoneLive
  <1>16. StopInv'
    <2>1. purge'.by = "none" /\ purge'.step = "none" /\ threads["stop"] # "purging"
      BY <1>1, <1>3 DEF StopInv
    <2> QED BY <1>1, <1>2, <1>4, <1>14, <1>15, <2>1 DEF StopInv
  <1>17. PnpInv'
    BY <1>2, <1>3 DEF PnpInv, Gone
  <1> QED BY <1>5, <1>6, <1>7, <1>8, <1>9, <1>10, <1>12, <1>13, <1>16, <1>17 DEF IInv, Core

\* Whatever refuses the destruction of the transport, it is not the drain.
LEMMA NotDrained ==
    ASSUME IInv, threads["pnp"] = "flushed", StopFlushed, overtaken = 0, AllAllocated(ctx)
    PROVE  Drained(ctx)
  <1>1. /\ ctx \in Contexts /\ FlightOk(ctx, bus, routines, overtaken) /\ WorkInv /\ StopInv /\ PnpInv
    BY DEF IInv, Core, CtxOk
  <1>2. ctx.state = "Stopped" /\ Quiet
    BY <1>1 DEF PnpInv
  <1>3. Quiescent(ctx)
    BY <1>2, PurgeDrains
  <1>4. ~ctx.stopPending /\ ~ctx.stopActive /\ ~ctx.draining
    BY <1>1, <1>2 DEF StopFlushed, StopInv
  <1> QED BY <1>2, <1>3, <1>4 DEF Drained, Quiescent

LEMMA DestroyTransportHolds ==
    ASSUME IInv, DestroyTransport
    PROVE  IInv'
  <1>1. /\ threads["pnp"] = "flushed" /\ StopFlushed
        /\ UNCHANGED <<bus, routines, lock, workers, purge, overtaken>>
    BY DEF DestroyTransport, OnlyThreads
  <1>2. /\ Types /\ ctx \in Contexts /\ CtxOk(ctx) /\ StopInv /\ PnpInv
        /\ Core(ctx, bus, routines, overtaken)
    BY DEF IInv, Core, CtxOk
  <1>3. CASE Drained(ctx)
    <2> DEFINE s == Allocated(0)
               q == [d \in Directions |-> <<>>]
    <2>1. /\ ctx' = [ctx EXCEPT !.slots = s, !.order = q]
          /\ threads' = [threads EXCEPT !["pnp"] = "released"]
      BY <1>3 DEF DestroyTransport, Thread
    <2>2. /\ s \in [Directions -> [Slots -> SlotType]]
          /\ \A d \in Directions, i \in Slots : Unused(s[d][i])
      BY UnusedSlots
    <2>3. q \in [Directions -> Seq(Slots)]
      OBVIOUS
    <2> HIDE DEF s, q
    <2>4. /\ ctx' \in Contexts /\ ctx'.slots = s /\ ctx'.order = q
          /\ ctx'.state = ctx.state /\ ctx'.running = ctx.running /\ ctx'.gen = ctx.gen
          /\ ctx'.outstanding = ctx.outstanding /\ ctx'.healthyGen = ctx.healthyGen
      BY <1>2, <2>1, <2>2, <2>3 DEF Contexts
    <2>5. /\ Items(ctx') = Items(ctx) /\ ctx'.draining = ctx.draining
          /\ ctx'.stopActive = ctx.stopActive /\ ctx'.stopping = ctx.stopping
          /\ ctx'.prepared = ctx.prepared /\ ctx'.healthy = ctx.healthy
      BY <1>2, <2>1 DEF Contexts, Items
    <2>6. /\ threads' \in [stop : StopPlaces, pnp : PnpPlaces]
          /\ threads'["pnp"] = "released" /\ threads'["stop"] = threads["stop"]
      BY <1>2, <2>1, PnpIs DEF PnpPlaces
    <2>7. ctx.state = "Stopped" /\ ctx.healthyGen <= ctx.gen
      BY <1>2, <1>3 DEF Drained, CtxOk
    <2>8. ctx'.stopping /\ ~ctx'.prepared /\ ~ctx'.healthy
      BY <1>1, <1>2, <2>5 DEF PnpInv, Gone
    <2> QED BY <1>1, <2>2, <2>4, <2>5, <2>6, <2>7, <2>8, ReplacedHolds DEF q
  <1>4. CASE ~Drained(ctx)
    <2>1. ctx' = ctx /\ threads' = [threads EXCEPT !["pnp"] = "refused"]
      BY <1>4 DEF DestroyTransport, Thread
    <2>2. /\ threads' \in [stop : StopPlaces, pnp : PnpPlaces]
          /\ threads'["pnp"] = "refused" /\ threads'["stop"] = threads["stop"]
      BY <1>2, <2>1, PnpIs DEF PnpPlaces
    <2>3. Types'
      BY <1>1, <1>2, <2>1, <2>2 DEF Types
    <2>4. overtaken = 0 => ~AllAllocated(ctx)
      BY <1>1, <1>4, NotDrained
    <2>5. StopInv'
      BY <1>1, <1>2, <2>1, <2>2 DEF StopInv, NoRoutines, AllAllocated, NoneLive, Quiet, ProcessIdle, At
    <2>6. PnpInv'
      BY <1>1, <1>2, <2>1, <2>2, <2>4 DEF PnpInv, Gone, AllAllocated
    <2>7. /\ \A w \in Workers : lock' = w <=> lock = w
          /\ lock' = "purge" <=> purge'.step = "target"
      BY <1>1 DEF IInv, WorkInv
    <2> QED BY <1>1, <1>2, <2>1, <2>3, <2>5, <2>6, <2>7, CalmHolds
  <1> QED BY <1>3, <1>4

LEMMA PrepareHolds ==
    ASSUME IInv, PrepareHardware \/ PrepareFails
    PROVE  IInv'
  <1>1. /\ threads["pnp"] = "released" /\ threads' = [threads EXCEPT !["pnp"] = "present"]
        /\ UNCHANGED <<bus, routines, lock, workers, purge, overtaken>>
    BY DEF PrepareHardware, PrepareFails, Thread
  <1>2. /\ Types /\ ctx \in Contexts /\ CtxOk(ctx) /\ StopInv /\ PnpInv /\ ctx.gen \in Nat
    BY DEF IInv, Core, CtxOk, Contexts
  <1>3. PICK s : /\ s = FreshSlots \/ \E n : s = Allocated(n)
                 /\ \/ ctx' = [ctx EXCEPT !.stopping = FALSE, !.prepared = TRUE, !.slots = s,
                                          !.healthy = TRUE, !.healthyGen = ctx.gen]
                    \/ ctx' = [ctx EXCEPT !.slots = s]
    BY DEF PrepareHardware, PrepareFails
  <1>4. /\ s \in [Directions -> [Slots -> SlotType]]
        /\ \A d \in Directions, i \in Slots : Unused(s[d][i])
    BY <1>3, UnusedSlots
  <1>5. /\ ctx' \in Contexts /\ ctx'.slots = s /\ ctx'.order = ctx.order
        /\ ctx'.state = ctx.state /\ ctx'.running = ctx.running /\ ctx'.gen = ctx.gen
        /\ ctx'.outstanding = ctx.outstanding /\ ctx'.healthyGen \in {ctx.healthyGen, ctx.gen}
    BY <1>2, <1>3, <1>4 DEF Contexts
  <1>6. /\ Items(ctx') = Items(ctx) /\ ctx'.draining = ctx.draining
        /\ ctx'.stopActive = ctx.stopActive
    BY <1>2, <1>3 DEF Contexts, Items
  <1>7. /\ threads' \in [stop : StopPlaces, pnp : PnpPlaces]
        /\ threads'["pnp"] = "present" /\ threads'["stop"] = threads["stop"]
    BY <1>1, <1>2, PnpIs DEF PnpPlaces
  <1>8. ctx.state = "Stopped" /\ ctx'.healthyGen <= ctx.gen
    <2>1. ctx.gen <= ctx.gen
      BY <1>2
    <2> QED BY <1>1, <1>2, <1>5, <2>1 DEF PnpInv, CtxOk
  <1> QED BY <1>1, <1>4, <1>5, <1>6, <1>7, <1>8, ReplacedHolds

(***************************************************************************)
(* The start                                                               *)
(***************************************************************************)
\* The engine that a start has prepared, before and after it counts as running.
Ready(c) == [Primed(c) EXCEPT !.running = TRUE, !.state = "Running"]

\* An engine without requests, of which the slots wait for nothing.
Empty(c) ==
    /\ \A d \in Directions, i \in Slots :
         State(c, d, i) = "Idle" /\ ~c.slots[d][i].inFlight
    /\ \A d \in Directions : c.order[d] = <<>> /\ c.outstanding[d] = 0

LEMMA PrimedSlots ==
    ASSUME NEW c \in Contexts
    PROVE  LET e == Primed(c)
           IN  /\ e \in Contexts
               /\ e.gen = c.gen + 1 /\ e.state = c.state /\ e.running = c.running
               /\ Rest(e) = Rest(c) /\ Items(e) = Items(c) /\ e.outstanding = c.outstanding
               /\ \A d \in Directions : e.order[d] = <<>>
               /\ \A d \in Directions, i \in Slots :
                    /\ State(e, d, i) = State(c, d, i)
                    /\ e.slots[d][i].inFlight = c.slots[d][i].inFlight
                    /\ e.slots[d][i].sentIn = c.slots[d][i].sentIn
                    /\ e.slots[d][i].gen = c.gen + 1 /\ e.slots[d][i].failures = 0
  <1> DEFINE e == Primed(c)
             g == c.gen + 1
             t(d, i) == [c.slots[d][i] EXCEPT !.gen = c.gen + 1, !.failures = 0]
             s == [d \in Directions |-> [i \in Slots |-> t(d, i)]]
             q == [d \in Directions |-> <<>>]
  <1>1. c.slots \in [Directions -> [Slots -> SlotType]] /\ c.gen \in Nat /\ g \in Nat
    BY DEF Contexts
  <1>2. 0 \in 0 .. RetryLimit + 1
    BY EngineConstants
  <1>3. \A d \in Directions, i \in Slots :
          /\ t(d, i) \in SlotType
          /\ t(d, i).state = c.slots[d][i].state /\ t(d, i).inFlight = c.slots[d][i].inFlight
          /\ t(d, i).sentIn = c.slots[d][i].sentIn
          /\ t(d, i).gen = c.gen + 1 /\ t(d, i).failures = 0
    <2> TAKE d \in Directions, i \in Slots
    <2>1. c.slots[d][i] \in SlotType /\ c.gen + 1 \in Nat
      BY <1>1
    <2> QED BY <1>2, <2>1 DEF SlotType
  <1>4. e = [c EXCEPT !.gen = g, !.order = q, !.slots = s]
    BY DEF Primed
  <1> HIDE DEF t
  <1>5. /\ s \in [Directions -> [Slots -> SlotType]]
        /\ \A d \in Directions, i \in Slots : s[d][i] = t(d, i)
    BY <1>3
  <1>6. q \in [Directions -> Seq(Slots)] /\ \A d \in Directions : q[d] = <<>>
    OBVIOUS
  <1> HIDE DEF s, q, g, e
  <1>7. e \in Contexts
    BY <1>1, <1>4, <1>5, <1>6 DEF Contexts
  <1>8. /\ e.gen = g /\ e.state = c.state /\ e.running = c.running
        /\ Rest(e) = Rest(c) /\ Items(e) = Items(c) /\ e.outstanding = c.outstanding
        /\ e.order = q /\ e.slots = s
    BY <1>4 DEF Contexts, Rest, Items
  <1>9. \A d \in Directions, i \in Slots :
          /\ State(e, d, i) = State(c, d, i)
          /\ e.slots[d][i].inFlight = c.slots[d][i].inFlight
          /\ e.slots[d][i].sentIn = c.slots[d][i].sentIn
          /\ e.slots[d][i].gen = c.gen + 1 /\ e.slots[d][i].failures = 0
    BY <1>3, <1>5, <1>8 DEF State
  <1> QED BY <1>6, <1>7, <1>8, <1>9 DEF e, g

LEMMA PrimedIs ==
    ASSUME NEW c, NEW r, NEW o, Core(c, {}, r, o), c.state = "Stopped",
           \A d \in Directions, i \in Slots : State(c, d, i) = "Idle" /\ ~c.slots[d][i].inFlight,
           \A d \in Directions : c.outstanding[d] = 0,
           NEW e \in {Primed(c), Ready(c)}
    PROVE  /\ Core(e, {}, r, o) /\ Empty(e)
           /\ Rest(e) = Rest(c) /\ Items(e) = Items(c)
           /\ e.state = (IF e = Primed(c) THEN "Stopped" ELSE "Running")
  <1> DEFINE p == Primed(c)
  <1>1. c \in Contexts /\ CtxOk(c) /\ c.gen \in Nat /\ FlightOk(c, {}, r, o) /\ ~c.running
        /\ c.healthyGen \in Nat
    BY DEF Core, CtxOk, Contexts
  <1>2. /\ p \in Contexts
        /\ p.gen = c.gen + 1 /\ p.state = c.state /\ p.running = c.running
        /\ Rest(p) = Rest(c) /\ Items(p) = Items(c) /\ p.outstanding = c.outstanding
        /\ \A d \in Directions : p.order[d] = <<>>
        /\ \A d \in Directions, i \in Slots :
             /\ State(p, d, i) = State(c, d, i)
             /\ p.slots[d][i].inFlight = c.slots[d][i].inFlight
             /\ p.slots[d][i].sentIn = c.slots[d][i].sentIn
             /\ p.slots[d][i].gen = c.gen + 1 /\ p.slots[d][i].failures = 0
    BY <1>1, PrimedSlots
  <1> HIDE DEF p
  <1>3. /\ e \in Contexts /\ e.gen = c.gen + 1
        /\ e.state = (IF e = p THEN "Stopped" ELSE "Running") /\ (e.running <=> e.state = "Running")
        /\ Rest(e) = Rest(c) /\ Items(e) = Items(c)
        /\ e.outstanding = c.outstanding /\ e.order = p.order /\ e.slots = p.slots
    <2>1. CASE e = p
      BY <1>1, <1>2, <2>1
    <2>2. CASE e # p
      <3>1. e = [p EXCEPT !.running = TRUE, !.state = "Running"]
        BY <2>2 DEF Ready, p
      <3> QED BY <1>2, <2>2, <3>1 DEF Contexts, Rest, Items
    <2> QED BY <2>1, <2>2
  <1>4. Empty(e)
    BY <1>2, <1>3 DEF Empty, State
  <1>5. CtxOk(e)
    <2>1. e.healthyGen <= e.gen
      <3>1. e.healthyGen = c.healthyGen /\ c.healthyGen <= c.gen
        BY <1>1, <1>3 DEF Rest, CtxOk
      <3> QED BY <1>1, <1>3, <3>1
    <2>2. \A d \in Directions, i \in Slots :
            /\ e.slots[d][i].gen <= e.gen /\ e.slots[d][i].sentIn <= e.gen
            /\ e.slots[d][i].failures <= RetryLimit
      <3> TAKE d \in Directions, i \in Slots
      <3>1. c.slots[d][i].sentIn \in Nat /\ c.slots[d][i].sentIn <= c.gen
        BY <1>1 DEF CtxOk, Contexts, SlotType
      <3>2. RetryLimit \in Nat
        BY EngineConstants
      <3> QED BY <1>1, <1>2, <1>3, <3>1, <3>2
    <2> QED BY <1>3, <2>1, <2>2 DEF CtxOk
  <1>6. BusOk(e, {})
    BY <1>4 DEF BusOk, Empty
  <1>7. FlightOk(e, {}, r, o)
    <2>1. \A d \in Directions : InFlight(e, d) = InFlight(c, d)
      BY <1>2, <1>3 DEF InFlight
    <2> QED BY <1>1, <1>3, <1>4, <2>1 DEF FlightOk, Empty
  <1> QED BY <1>3, <1>4, <1>5, <1>6, <1>7 DEF Core, p

\* The captures that a start has sent.
FirstCaptures(n) == {<<"capture", i>> : i \in 1 .. n}

LEMMA CapturesAre ==
    ASSUME NEW d, NEW i, NEW n
    PROVE  <<d, i>> \in FirstCaptures(n) <=> d = "capture" /\ i \in 1 .. n
  BY DEF FirstCaptures

\* The first n captures are on the bus, in the order of the slots.
LEMMA CapturesSentIs ==
    ASSUME NEW c, NEW r, NEW o, Core(c, {}, r, o), Empty(c), NEW n \in 0 .. SlotCount
    PROVE  LET e == CapturesSent(c, n)
           IN  /\ Core(e, FirstCaptures(n), r, o)
               /\ Words(e) = Words(c) /\ Rest(e) = Rest(c) /\ Items(e) = Items(c)
               /\ e.order["capture"] = [i \in 1 .. n |-> i] /\ e.order["output"] = <<>>
               /\ \A d \in Directions, i \in Slots :
                    State(e, d, i) = IF d = "capture" /\ i <= n THEN "Submitted" ELSE "Idle"
  <1> DEFINE e == CapturesSent(c, n)
             t == [i \in Slots |-> IF i <= n THEN Sent(c.slots["capture"][i], c.gen)
                                   ELSE c.slots["capture"][i]]
             q == [i \in 1 .. n |-> i]
             x == [c.slots EXCEPT !["capture"] = t]
             y == [c.order EXCEPT !["capture"] = q]
             z == [c.outstanding EXCEPT !["capture"] = n]
  <1>1. /\ c \in Contexts /\ CtxOk(c) /\ FlightOk(c, {}, r, o) /\ c.gen \in Nat
        /\ c.slots \in [Directions -> [Slots -> SlotType]]
        /\ c.order \in [Directions -> Seq(Slots)] /\ c.outstanding \in [Directions -> Nat]
        /\ SlotCount \in Nat /\ "capture" \in Directions /\ "output" \in Directions
        /\ n \in Nat /\ \A i \in Slots : i \in Nat /\ i >= 1 /\ i <= SlotCount
    BY EngineConstants DEF Core, CtxOk, Contexts, Slots, Directions
  <1>2. c.order["capture"] = <<>> /\ c.outstanding["capture"] = 0
    BY <1>1 DEF Empty
  <1>3. \A i \in Slots :
          LET s == Sent(c.slots["capture"][i], c.gen)
          IN  /\ s \in SlotType /\ s.state = "Submitted" /\ s.inFlight /\ s.sentIn = c.gen
              /\ s.gen = c.slots["capture"][i].gen /\ s.failures = c.slots["capture"][i].failures
    <2> TAKE i \in Slots
    <2>1. c.slots["capture"][i] \in SlotType /\ "Submitted" \in States
      BY <1>1 DEF States
    <2> QED BY <1>1, <2>1 DEF Sent, SlotType
  <1>4. /\ t \in [Slots -> SlotType]
        /\ \A i \in Slots : t[i] = IF i <= n THEN Sent(c.slots["capture"][i], c.gen)
                                   ELSE c.slots["capture"][i]
    BY <1>1, <1>3
  <1>5. q \in Seq(Slots) /\ <<>> \o q = q
    <2>1. \A i \in 1 .. n : i \in Slots
      BY <1>1 DEF Slots
    <2> QED BY <1>1, <2>1
  <1>6. e = [c EXCEPT !.slots = x, !.order = y, !.outstanding = z]
    <2>1. e = [c EXCEPT !.slots["capture"] = t, !.order["capture"] = c.order["capture"] \o q,
                        !.outstanding["capture"] = c.outstanding["capture"] + n]
      BY DEF CapturesSent
    <2>2. c.order["capture"] \o q = q /\ c.outstanding["capture"] + n = n
      BY <1>1, <1>2, <1>5
    <2> HIDE DEF t, q, e
    <2>3. e = [c EXCEPT !.slots["capture"] = t, !.order["capture"] = q,
                        !.outstanding["capture"] = n]
      BY <2>1, <2>2
    <2> QED BY <1>1, <2>3 DEF Contexts
  <1> HIDE DEF t, e, q
  <1>7. /\ x \in [Directions -> [Slots -> SlotType]] /\ x["capture"] = t
        /\ x["output"] = c.slots["output"]
        /\ y \in [Directions -> Seq(Slots)] /\ y["capture"] = q /\ y["output"] = c.order["output"]
        /\ z \in [Directions -> Nat] /\ z["capture"] = n
        /\ z["output"] = c.outstanding["output"]
    BY <1>1, <1>4, <1>5 DEF Directions
  <1> HIDE DEF x, y, z
  <1>8. e \in Contexts
    BY <1>1, <1>6, <1>7 DEF Contexts
  <1>9. /\ Words(e) = Words(c) /\ Rest(e) = Rest(c) /\ Items(e) = Items(c)
        /\ e.slots = x /\ e.order = y /\ e.outstanding = z
    BY <1>1, <1>6 DEF Contexts, Words, Rest, Items
  <1>10. \A i \in Slots :
           /\ i <= n => /\ State(e, "capture", i) = "Submitted" /\ e.slots["capture"][i].inFlight
                        /\ e.slots["capture"][i].sentIn = c.gen
           /\ ~(i <= n) => e.slots["capture"][i] = c.slots["capture"][i]
           /\ e.slots["capture"][i].gen = c.slots["capture"][i].gen
           /\ e.slots["capture"][i].failures = c.slots["capture"][i].failures
           /\ e.slots["output"][i] = c.slots["output"][i]
    BY <1>3, <1>4, <1>7, <1>9 DEF State
  <1>11. \A d \in Directions, i \in Slots :
           /\ State(e, d, i) = IF d = "capture" /\ i <= n THEN "Submitted" ELSE "Idle"
           /\ e.slots[d][i].inFlight <=> d = "capture" /\ i <= n
    <2> TAKE d \in Directions, i \in Slots
    <2>1. CASE d = "capture" /\ i <= n
      BY <1>10, <2>1
    <2>2. CASE ~(d = "capture" /\ i <= n)
      <3>1. e.slots[d][i] = c.slots[d][i]
        BY <1>10, <2>2 DEF Directions
      <3> QED BY <2>2, <3>1 DEF Empty, State
    <2> QED BY <2>1, <2>2
  <1>12. CtxOk(e)
    <2>1. \A d \in Directions, i \in Slots :
            /\ e.slots[d][i].gen <= c.gen /\ e.slots[d][i].sentIn <= c.gen
            /\ c.running => e.slots[d][i].failures <= RetryLimit
      <3> TAKE d \in Directions, i \in Slots
      <3>1. /\ c.slots[d][i].gen <= c.gen /\ c.slots[d][i].sentIn <= c.gen
            /\ c.running => c.slots[d][i].failures <= RetryLimit
        BY <1>1 DEF CtxOk
      <3>2. c.gen <= c.gen
        BY <1>1
      <3>3. CASE d = "output"
        BY <1>10, <3>1, <3>3
      <3>4. CASE d = "capture"
        BY <1>10, <3>1, <3>2, <3>4
      <3> QED BY <3>3, <3>4 DEF Directions
    <2> QED BY <1>1, <1>8, <1>9, <2>1 DEF CtxOk, Words, Rest
  <1>13. BusOk(e, FirstCaptures(n))
    <2> SUFFICES ASSUME NEW d \in Directions, NEW i \in Slots
                 PROVE  /\ <<d, i>> \in FirstCaptures(n) <=> State(e, d, i) = "Submitted"
                        /\ e.running /\ State(e, d, i) = "Submitted" => e.slots[d][i].sentIn = e.gen
      BY DEF BusOk
    <2>1. i \in 1 .. n <=> i <= n
      BY <1>1
    <2>2. <<d, i>> \in FirstCaptures(n) <=> State(e, d, i) = "Submitted"
      BY <1>11, <2>1, CapturesAre
    <2>3. State(e, d, i) = "Submitted" => e.slots[d][i].sentIn = e.gen
      BY <1>9, <1>10, <1>11 DEF Words
    <2> QED BY <2>2, <2>3
  <1>14. FlightOk(e, FirstCaptures(n), r, o)
    <2>1. InFlight(e, "capture") = 1 .. n /\ InFlight(e, "output") = {}
      <3>1. \A i : i \in 1 .. n <=> i \in Slots /\ i <= n
        BY <1>1 DEF Slots
      <3> QED BY <1>1, <1>11, <3>1 DEF InFlight
    <2>2. Cardinality(1 .. n) = n
      <3>1. Cardinality(1 .. n) = IF 1 > n THEN 0 ELSE n - 1 + 1
        BY <1>1, FS_Interval
      <3> QED BY <1>1, <3>1
    <2>3. \A d \in Directions : e.outstanding[d] = Cardinality(InFlight(e, d)) /\ e.outstanding[d] \in Nat
      BY <1>1, <1>7, <1>9, <2>1, <2>2, FS_EmptySet DEF Directions, Empty
    <2>4. \A d \in Directions, i \in Slots : e.slots[d][i].inFlight => <<d, i>> \in FirstCaptures(n)
      <3> TAKE d \in Directions, i \in Slots
      <3>1. i <= n => i \in 1 .. n
        BY <1>1
      <3> QED BY <1>11, <3>1, CapturesAre
    <2> QED BY <2>3, <2>4 DEF FlightOk
  <1>15. Core(e, FirstCaptures(n), r, o)
    BY <1>12, <1>13, <1>14 DEF Core
  <1>16. e.order["capture"] = q /\ e.order["output"] = <<>>
    BY <1>1, <1>7, <1>9 DEF Empty
  <1> QED BY <1>9, <1>11, <1>15, <1>16 DEF e, q

\* What every outcome of a start has in common.
Started(e, b) ==
    /\ Core(e, b, routines, overtaken) /\ OrderOk(e)
    /\ Rest(e) = Rest(ctx) /\ e.active = ctx.active
    /\ \/ Items(e) = Items(ctx)
          /\ \A d \in Directions, i \in Slots : State(e, d, i) # "Completed"
       \/ e.pending /\ e.queued
    /\ \A d \in Directions, i \in Slots : State(e, d, i) \in {"Idle", "Submitted", "Completed"}
    /\ e.state = "Stopped" => b = {} /\ Items(e) = Items(ctx) /\ Empty(e)

\* Only an engine of which every purge has ended, and whose hardware is there, starts.
LEMMA CanStartIs ==
    ASSUME IInv, CanStart(ctx)
    PROVE  /\ ctx.state = "Stopped" /\ Quiet /\ ~ctx.active /\ ~ctx.draining
           /\ \A d \in Directions, i \in Slots :
                State(ctx, d, i) = "Idle" /\ ~ctx.slots[d][i].inFlight
           /\ \A d \in Directions : ctx.outstanding[d] = 0
           /\ purge.step \in {"none", "enter"}
           /\ threads["pnp"] \in {"present", "purging"}
  <1>1. Types /\ StopInv /\ PnpInv /\ ctx.healthy /\ ctx.state = "Stopped" /\ ~ctx.active
    BY DEF IInv, CanStart
  <1>2. /\ Quiet /\ ~ctx.draining
        /\ \A d \in Directions, i \in Slots : ~ctx.slots[d][i].inFlight
    BY <1>1 DEF StopInv
  <1>3. \A d \in Directions, i \in Slots : State(ctx, d, i) = "Idle"
    <2> TAKE d \in Directions, i \in Slots
    <2>1. <<d, i>> \in Requests /\ <<d, i>>[1] = d /\ <<d, i>>[2] = i
      BY PairsAre
    <2>2. ctx.slots[<<d, i>>[1]][<<d, i>>[2]].state = "Idle"
      BY <2>1 DEF CanStart
    <2> QED BY <2>1, <2>2 DEF State
  <1>4. purge.step \in {"none", "enter"}
    BY <1>1, <1>2 DEF StopInv, Types, PurgeSteps
  <1>5. threads["pnp"] \in PnpPlaces /\ threads["pnp"] \notin Gone
    BY <1>1 DEF PnpInv, Types
  <1>6. threads["pnp"] \in {"present", "purging"}
    BY <1>5 DEF Gone, PnpPlaces
  <1> QED BY <1>1, <1>2, <1>3, <1>4, <1>6 DEF CanStart

LEMMA StartedHolds ==
    ASSUME IInv, CanStart(ctx), Started(ctx', bus'), bus' \subseteq Requests,
           UNCHANGED <<routines, lock, workers, purge, threads, overtaken>>
    PROVE  IInv'
  <1>1. /\ Types /\ WorkInv /\ PairInv /\ StopInv /\ PnpInv
    BY DEF IInv
  <1>2. /\ ctx.state = "Stopped" /\ Quiet /\ ~ctx.active /\ ~ctx.draining
        /\ purge.step \in {"none", "enter"}
        /\ threads["pnp"] \in {"present", "purging"}
    BY CanStartIs
  <1>3. /\ \A w \in Workers : workers[w].pc = "idle"
        /\ NoRoutines /\ ~ctx.queued
    BY <1>2 DEF Quiet, ProcessIdle, At
  <1>4. /\ ctx'.draining = ctx.draining /\ ctx'.stopActive = ctx.stopActive
        /\ ctx'.prepared = ctx.prepared /\ ctx'.stopping = ctx.stopping
        /\ ctx'.active = ctx.active
    BY DEF Started, Rest
  <1>5. Types'
    BY <1>1 DEF Types
  <1>6. WorkInv'
    <2>1. ctx'.pending => ctx'.queued
      <3>1. ~ctx.pending
        BY <1>1, <1>3 DEF WorkInv, At
      <3> QED BY <3>1 DEF Started, Items
    <2> QED BY <1>1, <1>4, <2>1 DEF WorkInv, At
  <1>7. PairInv'
    BY <1>3 DEF PairInv, At, Started, Directions
  <1>8. FoundInv'
    <2> SUFFICES ASSUME NEW d \in Directions, Found(ctx', d) PROVE ~ctx'.active /\ ctx'.queued
      BY DEF FoundInv, Attended
    <2>1. ctx' \in Contexts
      BY DEF Started, Core, CtxOk
    <2>2. Head(ctx'.order[d]) \in Slots /\ State(ctx', d, Head(ctx'.order[d])) = "Completed"
      BY <2>1, FoundIs
    <2>3. ctx'.queued
      BY <2>2 DEF Started
    <2> QED BY <1>2, <1>4, <2>3
  <1>9. AllAllocated(ctx')
    BY PairsAre DEF AllAllocated, Started, State
  <1>10. StopInv'
    <2>1. ctx'.state = "Stopped" =>
            /\ Quiet' /\ NoneLive(ctx')
            /\ \A d \in Directions, i \in Slots : ~ctx'.slots[d][i].inFlight
      BY <1>2, <1>3 DEF Started, Empty, NoneLive, Quiet, NoRoutines, ProcessIdle, At, Items
    <2>2. /\ purge'.step \notin {"target", "flush", "publish"} /\ ~ctx'.draining
      BY <1>2, <1>4
    <2> QED BY <1>1, <1>4, <1>9, <2>1, <2>2 DEF StopInv
  <1>11. PnpInv'
    BY <1>1, <1>2, <1>4 DEF PnpInv, Gone
  <1>12. Core(ctx', bus', routines', overtaken') /\ OrderOk(ctx')
    BY DEF Started
  <1> QED BY <1>5, <1>6, <1>7, <1>8, <1>10, <1>11, <1>12 DEF IInv

LEMMA NoOrder == \A r : InOrder(<<>>, {}, r)
  BY DEF InOrder

LEMMA CaptureOrder ==
    ASSUME NEW n \in Nat, NEW r
    PROVE  InOrder([i \in 1 .. n |-> i], 1 .. n, r)
  BY DEF InOrder

\* A start that fails before it sends anything, as long as it does not count as running.
LEMMA PrimedStarts ==
    ASSUME IInv, CanStart(ctx), NEW e \in {Primed(ctx), FatalStop(Primed(ctx))}
    PROVE  Started(e, {})
  <1> DEFINE p == Primed(ctx)
  <1>1. /\ ctx.state = "Stopped" /\ bus = {}
        /\ \A d \in Directions, i \in Slots :
             State(ctx, d, i) = "Idle" /\ ~ctx.slots[d][i].inFlight
        /\ \A d \in Directions : ctx.outstanding[d] = 0
    BY CanStartIs DEF Quiet
  <1>2. Core(ctx, {}, routines, overtaken)
    BY <1>1 DEF IInv
  <1>3. /\ Core(p, {}, routines, overtaken) /\ Empty(p)
        /\ Rest(p) = Rest(ctx) /\ Items(p) = Items(ctx) /\ p.state = "Stopped"
    BY <1>1, <1>2, PrimedIs
  <1> HIDE DEF p
  <1>4. \A d \in Directions : LiveSlots(p, d) = {}
    BY <1>3 DEF LiveSlots, Live, Empty
  <1>5. OrderOk(p)
    BY <1>3, <1>4, NoOrder DEF OrderOk, Empty
  <1>6. Started(p, {})
    BY <1>3, <1>5 DEF Started, Empty, Items
  <1>7. Started(FatalStop(p), {})
    <2> DEFINE g == FatalStop(p)
    <2>1. /\ Core(g, {}, routines, overtaken)
          /\ g.state = "Stopping" /\ ~g.running /\ Rest(g) = Rest(p) /\ Items(g) = Items(p)
          /\ g.order = p.order
          /\ \A d \in Directions, i \in Slots : State(g, d, i) = State(p, d, i)
      BY <1>3, StoppedIs
    <2> HIDE DEF g
    <2>2. \A d \in Directions : LiveSlots(g, d) = {}
      BY <1>3, <2>1 DEF LiveSlots, Live, Empty
    <2>3. OrderOk(g)
      BY <1>3, <2>1, <2>2, NoOrder DEF OrderOk, Empty
    <2>4. Started(g, {})
      BY <1>3, <2>1, <2>3 DEF Started, Empty, Items
    <2> QED BY <2>4 DEF g
  <1> QED BY <1>6, <1>7 DEF p

\* The first n captures are on the bus, and the engine runs.
LEMMA SomeCaptures ==
    ASSUME IInv, CanStart(ctx), NEW n \in 0 .. SlotCount
    PROVE  LET e == CapturesSent(Ready(ctx), n)
           IN  /\ Core(e, FirstCaptures(n), routines, overtaken) /\ e \in Contexts
               /\ e.state = "Running" /\ e.running
               /\ Rest(e) = Rest(ctx) /\ Items(e) = Items(ctx)
               /\ OrderOk(e)
               /\ \A d \in Directions, i \in Slots :
                    State(e, d, i) = IF d = "capture" /\ i <= n THEN "Submitted" ELSE "Idle"
  <1> DEFINE p == Ready(ctx)
             e == CapturesSent(p, n)
  <1>1. /\ ctx.state = "Stopped" /\ bus = {}
        /\ \A d \in Directions, i \in Slots :
             State(ctx, d, i) = "Idle" /\ ~ctx.slots[d][i].inFlight
        /\ \A d \in Directions : ctx.outstanding[d] = 0
    BY CanStartIs DEF Quiet
  <1>2. Core(ctx, {}, routines, overtaken) /\ Primed(ctx) \in Contexts
    <2>1. Core(ctx, {}, routines, overtaken) /\ ctx \in Contexts
      BY <1>1 DEF IInv, Core, CtxOk
    <2> QED BY <2>1, PrimedSlots
  <1>3. p # Primed(ctx) /\ p \in {Primed(ctx), Ready(ctx)}
    <2>1. Primed(ctx).state = "Stopped"
      BY <1>1, <1>2, PrimedSlots DEF IInv, Core, CtxOk
    <2>2. p.state = "Running"
      BY <1>2 DEF Ready, Contexts
    <2> QED BY <2>1, <2>2
  <1>4. /\ Core(p, {}, routines, overtaken) /\ Empty(p)
        /\ Rest(p) = Rest(ctx) /\ Items(p) = Items(ctx) /\ p.state = "Running"
    BY <1>1, <1>2, <1>3, PrimedIs
  <1> HIDE DEF p
  <1>5. /\ Core(e, FirstCaptures(n), routines, overtaken)
        /\ Words(e) = Words(p) /\ Rest(e) = Rest(p) /\ Items(e) = Items(p)
        /\ e.order["capture"] = [i \in 1 .. n |-> i] /\ e.order["output"] = <<>>
        /\ \A d \in Directions, i \in Slots :
             State(e, d, i) = IF d = "capture" /\ i <= n THEN "Submitted" ELSE "Idle"
    BY <1>4, CapturesSentIs
  <1> HIDE DEF e
  <1>6. e.state = "Running" /\ e \in Contexts /\ e.running
    BY <1>4, <1>5 DEF Words, Core, CtxOk, Contexts
  <1>7. OrderOk(e)
    <2>1. SlotCount \in Nat /\ n \in Nat /\ n <= SlotCount
      BY EngineConstants
    <2>2. LiveSlots(e, "output") = {}
      BY <1>5 DEF LiveSlots, Live, Directions
    <2>3. LiveSlots(e, "capture") = 1 .. n
      <3>1. \A i : i \in 1 .. n <=> i \in Slots /\ i <= n
        BY <2>1 DEF Slots
      <3> QED BY <1>5, <3>1 DEF LiveSlots, Live, Directions
    <2>4. InOrder(e.order["output"], LiveSlots(e, "output"), e.running)
      BY <1>5, <2>2, NoOrder
    <2>5. InOrder(e.order["capture"], LiveSlots(e, "capture"), e.running)
      BY <1>5, <2>1, <2>3, CaptureOrder
    <2> QED BY <2>4, <2>5 DEF OrderOk, Directions
  <1> QED BY <1>4, <1>5, <1>6, <1>7 DEF e, p

LEMMA FullyStarts ==
    ASSUME IInv, CanStart(ctx)
    PROVE  Started(CapturesSent(Ready(ctx), SlotCount), FirstCaptures(SlotCount))
  <1> DEFINE e == CapturesSent(Ready(ctx), SlotCount)
  <1>1. SlotCount \in 0 .. SlotCount
    BY EngineConstants
  <1>2. /\ Core(e, FirstCaptures(SlotCount), routines, overtaken)
        /\ e.state = "Running"
        /\ Rest(e) = Rest(ctx) /\ Items(e) = Items(ctx)
        /\ OrderOk(e)
        /\ \A d \in Directions, i \in Slots :
             State(e, d, i) = IF d = "capture" /\ i <= SlotCount THEN "Submitted" ELSE "Idle"
    BY <1>1, SomeCaptures
  <1> HIDE DEF e
  <1>3. Started(e, FirstCaptures(SlotCount))
    <2>1. \A d \in Directions, i \in Slots : State(e, d, i) \in {"Idle", "Submitted"}
      BY <1>2
    <2>2. e.active = ctx.active
      BY <1>2 DEF Items
    <2> QED BY <1>2, <2>1, <2>2 DEF Started
  <1> QED BY <1>3 DEF e

\* A start that fails at the n-th capture leaves the captures before it to the purge.
LEMMA PartlyStarts ==
    ASSUME IInv, CanStart(ctx), NEW n \in Slots,
           NEW result \in {"cancelled", "unusable", "unformatted", "refused"}
    PROVE  Started(FatalStop(Submitted(CapturesSent(Ready(ctx), n - 1), "capture", n, result)),
                   FirstCaptures(n - 1))
  <1> DEFINE c == CapturesSent(Ready(ctx), n - 1)
             b == FirstCaptures(n - 1)
             e == Submitted(c, "capture", n, result)
             g == FatalStop(e)
  <1>1. /\ n - 1 \in 0 .. SlotCount /\ ~(n <= n - 1) /\ "capture" \in Directions
        /\ <<"capture", n>> \in Requests
    BY EngineConstants, PairsAre DEF Slots, Directions
  <1>2. /\ Core(c, b, routines, overtaken) /\ c \in Contexts /\ CtxOk(c)
        /\ c.state = "Running" /\ c.running
        /\ Rest(c) = Rest(ctx) /\ Items(c) = Items(ctx)
        /\ OrderOk(c)
        /\ \A d \in Directions, i \in Slots :
             State(c, d, i) = IF d = "capture" /\ i <= n - 1 THEN "Submitted" ELSE "Idle"
    BY <1>1, SomeCaptures DEF Core
  <1>3. State(c, "capture", n) = "Idle"
    BY <1>1, <1>2
  <1>4. ~ctx.active /\ routines[<<"capture", n>>] = 0
    BY <1>1, CanStartIs DEF Quiet, NoRoutines
  <1> HIDE DEF c, b, e
  <1>5. CASE result = "refused"
    <2>1. overtaken \in Nat
      BY EngineConstants DEF IInv, Types
    <2>2. Counted(routines, "capture", n, overtaken, overtaken)
      BY <1>4, <2>1 DEF Counted
    <2>3. State(c, "capture", n) # "Submitted" /\ routines[<<"capture", n>>] \in Nat
      BY <1>3, <1>4
    <2>3a. e = Submitted(c, "capture", n, "refused")
      BY <1>5 DEF e
    <2>4. /\ Core(e, b, routines, overtaken)
          /\ State(e, "capture", n) = "Completed"
          /\ e.order["capture"] = Append(c.order["capture"], n)
          /\ \A f \in Directions : f # "capture" => e.order[f] = c.order[f]
          /\ \A f \in Directions, j \in Slots : (f # "capture" \/ j # n) => State(e, f, j) = State(c, f, j)
          /\ Words(e) = Words(c) /\ Rest(e) = Rest(c)
          /\ e.pending /\ e.active = c.active /\ (e.queued <=> c.queued \/ ~c.active)
      <3> DEFINE h == Submitted(c, "capture", n, "refused")
      <3>1. Core(c, b, routines, overtaken) /\ "capture" \in Directions
        BY <1>1, <1>2
      <3>2. /\ Core(h, b, routines, overtaken)
            /\ State(h, "capture", n) = "Completed"
            /\ h.order["capture"] = Append(c.order["capture"], n)
            /\ \A f \in Directions : f # "capture" => h.order[f] = c.order[f]
            /\ \A f \in Directions, j \in Slots : (f # "capture" \/ j # n) => State(h, f, j) = State(c, f, j)
            /\ Words(h) = Words(c) /\ Rest(h) = Rest(c)
            /\ h.pending /\ h.active = c.active /\ (h.queued <=> c.queued \/ ~c.active)
        BY <2>2, <2>3, <3>1, RefusedIs
      <3> QED BY <2>3a, <3>2
    <2>5. /\ Core(g, b, routines, overtaken)
          /\ g.state = "Stopping" /\ ~g.running /\ Rest(g) = Rest(e) /\ Items(g) = Items(e)
          /\ g.order = e.order
          /\ \A d \in Directions, i \in Slots : State(g, d, i) = State(e, d, i)
      BY <2>4, StoppedIs
    <2> HIDE DEF g
    <2>6. OrderOk(g)
      <3>1. LiveSlots(g, "capture") = LiveSlots(c, "capture") \cup {n}
        BY <1>1, <2>4, <2>5 DEF LiveSlots, Live
      <3>2. \A f \in Directions : f # "capture" => g.order[f] = c.order[f]
                                                   /\ LiveSlots(g, f) = LiveSlots(c, f)
        BY <2>4, <2>5 DEF LiveSlots
      <3>3. State(c, "capture", n) \notin Live
        BY <1>3 DEF Live
      <3> QED BY <1>1, <1>2, <2>4, <2>5, <3>1, <3>2, <3>3, MoreOrder
    <2>7. /\ g.active = ctx.active /\ g.pending /\ g.queued
      BY <1>2, <1>4, <2>4, <2>5 DEF Items
    <2>8. \A d \in Directions, i \in Slots : State(g, d, i) \in {"Idle", "Submitted", "Completed"}
      <3> TAKE d \in Directions, i \in Slots
      <3>1. CASE d = "capture" /\ i = n
        BY <2>4, <2>5, <3>1
      <3>2. CASE d # "capture" \/ i # n
        BY <1>2, <2>4, <2>5, <3>2
      <3> QED BY <3>1, <3>2
    <2>9. Started(g, b)
      BY <1>2, <2>4, <2>5, <2>6, <2>7, <2>8 DEF Started
    <2> QED BY <2>9 DEF g, e, c, b
  <1>6. CASE result # "refused"
    <2>1. result \in {"cancelled", "unusable", "unformatted"}
      BY <1>6
    <2>2. State(c, "capture", n) # "Submitted"
      BY <1>3
    <2>3. /\ Follows(e, c)
          /\ State(e, "capture", n) = "Idle"
          /\ e.order = c.order
          /\ \A f \in Directions, j \in Slots : (f # "capture" \/ j # n) => State(e, f, j) = State(c, f, j)
          /\ Rest(e) = Rest(c) /\ Items(e) = Items(c)
      BY <1>1, <1>2, <2>1, <2>2, UnsentIs DEF e
    <2>4. Core(e, b, routines, overtaken)
      BY <1>2, <2>3, CoreFollows
    <2>5. /\ Core(g, b, routines, overtaken)
          /\ g.state = "Stopping" /\ ~g.running /\ Rest(g) = Rest(e) /\ Items(g) = Items(e)
          /\ g.order = e.order
          /\ \A d \in Directions, i \in Slots : State(g, d, i) = State(e, d, i)
      BY <2>4, StoppedIs
    <2> HIDE DEF g
    <2>6. \A d \in Directions, i \in Slots : State(g, d, i) = State(c, d, i)
      <3> TAKE d \in Directions, i \in Slots
      <3>1. CASE d = "capture" /\ i = n
        BY <1>3, <2>3, <2>5, <3>1
      <3>2. CASE d # "capture" \/ i # n
        BY <2>3, <2>5, <3>2
      <3> QED BY <3>1, <3>2
    <2>7. OrderOk(g)
      <3>1. \A d \in Directions : LiveSlots(g, d) = LiveSlots(c, d)
        BY <2>6 DEF LiveSlots
      <3> QED BY <1>2, <2>3, <2>5, <3>1, SameOrder
    <2>8. \A d \in Directions, i \in Slots : State(g, d, i) \in {"Idle", "Submitted"}
      BY <1>2, <2>6
    <2>9. g.active = ctx.active /\ Items(g) = Items(ctx) /\ Rest(g) = Rest(ctx)
      BY <1>2, <2>3, <2>5 DEF Items
    <2>10. Started(g, b)
      BY <2>5, <2>7, <2>8, <2>9 DEF Started
    <2> QED BY <2>10 DEF g, e, c, b
  <1> QED BY <1>5, <1>6

LEMMA StartHolds ==
    ASSUME IInv, Start
    PROVE  IInv'
  <1>1. CanStart(ctx) /\ UNCHANGED <<routines, lock, workers, purge, threads, overtaken>>
    BY DEF Start
  <1>2. bus = {}
    BY <1>1, CanStartIs DEF Quiet
  <1>3. \/ ctx' \in {Primed(ctx), FatalStop(Primed(ctx))} /\ bus' = bus
        \/ \E n \in Slots : \E result \in {"cancelled", "unusable", "unformatted", "refused"} :
             /\ ctx' = FatalStop(Submitted(CapturesSent(Ready(ctx), n - 1), "capture", n, result))
             /\ bus' = bus \cup FirstCaptures(n - 1)
        \/ /\ ctx' = CapturesSent(Ready(ctx), SlotCount)
           /\ bus' = bus \cup FirstCaptures(SlotCount)
    <2> DEFINE ready == [Primed(ctx) EXCEPT !.running = TRUE, !.state = "Running"]
               mayRun == MaySubmit(ready, ready.slots["capture"][1])
    <2>1. \/ ctx' \in {Primed(ctx), FatalStop(Primed(ctx))} /\ bus' = bus
          \/ \E n \in IF mayRun THEN Slots ELSE {1} :
               \E result \in SubmitResults(CapturesSent(ready, n - 1), "capture", n) \ {"sent"} :
                  /\ ctx' = FatalStop(Submitted(CapturesSent(ready, n - 1), "capture", n, result))
                  /\ bus' = bus \cup {<<"capture", i>> : i \in 1 .. (n - 1)}
          \/ /\ ctx' = CapturesSent(ready, SlotCount)
             /\ bus' = bus \cup {<<"capture", i>> : i \in Slots}
      BY DEF Start
    <2> HIDE DEF mayRun
    <2>2. ready = Ready(ctx) /\ 1 \in Slots
      BY EngineConstants DEF Ready, Slots
    <2> HIDE DEF ready
    <2>3. ASSUME NEW n \in IF mayRun THEN Slots ELSE {1},
                 NEW result \in SubmitResults(CapturesSent(ready, n - 1), "capture", n) \ {"sent"}
          PROVE  n \in Slots /\ result \in {"cancelled", "unusable", "unformatted", "refused"}
      <3>1. n \in Slots
        BY <2>2
      <3>2. result \in {"cancelled", "unusable", "unformatted", "refused", "sent"}
        BY ResultsAre
      <3> QED BY <3>1, <3>2
    <2> QED BY <2>1, <2>2, <2>3 DEF FirstCaptures, Slots
  <1>4. \A n : n - 1 \in 0 .. SlotCount => FirstCaptures(n - 1) \subseteq Requests
    <2> TAKE n
    <2>1. SUFFICES ASSUME n - 1 \in 0 .. SlotCount PROVE FirstCaptures(n - 1) \subseteq Requests
      OBVIOUS
    <2>2. \A i \in 1 .. (n - 1) : i \in Slots
      BY <2>1, EngineConstants DEF Slots
    <2> QED BY <2>2 DEF FirstCaptures, Requests, Directions
  <1>5. CASE ctx' \in {Primed(ctx), FatalStop(Primed(ctx))} /\ bus' = bus
    <2>1. Started(ctx', bus')
      BY <1>1, <1>2, <1>5, PrimedStarts
    <2> QED BY <1>1, <1>2, <1>5, <2>1, StartedHolds
  <1>6. ASSUME NEW n \in Slots, NEW result \in {"cancelled", "unusable", "unformatted", "refused"},
               ctx' = FatalStop(Submitted(CapturesSent(Ready(ctx), n - 1), "capture", n, result)),
               bus' = bus \cup FirstCaptures(n - 1)
        PROVE  IInv'
    <2>1. bus' = FirstCaptures(n - 1)
      BY <1>2, <1>6
    <2>2. Started(ctx', bus')
      BY <1>1, <1>6, <2>1, PartlyStarts
    <2>3. bus' \subseteq Requests
      <3>1. n - 1 \in 0 .. SlotCount
        BY EngineConstants DEF Slots
      <3> QED BY <1>4, <2>1, <3>1
    <2> QED BY <1>1, <2>2, <2>3, StartedHolds
  <1>7. CASE ctx' = CapturesSent(Ready(ctx), SlotCount) /\ bus' = bus \cup FirstCaptures(SlotCount)
    <2>1. bus' = FirstCaptures(SlotCount)
      BY <1>2, <1>7
    <2>2. Started(ctx', bus')
      BY <1>1, <1>7, <2>1, FullyStarts
    <2>3. bus' \subseteq Requests
      BY <2>1 DEF FirstCaptures, Requests, Directions, Slots
    <2> QED BY <1>1, <2>2, <2>3, StartedHolds
  <1> QED BY <1>3, <1>5, <1>6, <1>7

(***************************************************************************)
(* The invariant of the engine                                             *)
(***************************************************************************)
LEMMA InitHolds == Init => IInv
  <1> SUFFICES ASSUME Init PROVE IInv
    OBVIOUS
  <1>1. /\ ctx.slots = FreshSlots /\ ctx.state = "Stopped" /\ ~ctx.running /\ ctx.gen = 0
        /\ ctx.healthyGen = 0 /\ ctx.healthy /\ ~ctx.draining
        /\ ctx.order = [d \in Directions |-> <<>>] /\ ctx.outstanding = [d \in Directions |-> 0]
        /\ ~ctx.pending /\ ~ctx.active /\ ~ctx.queued /\ ~ctx.stopActive
    BY DEF Init
  <1>2. /\ bus = {} /\ NoRoutines /\ lock = "none" /\ purge = NoPurge /\ overtaken = 0
        /\ threads = [stop |-> "idle", pnp |-> "present"]
        /\ \A w \in Workers : workers[w] = NoWork /\ workers[w].pc = "idle"
    BY DEF Init, NoRoutines, NoWork
  <1>3. /\ ctx.slots \in [Directions -> [Slots -> SlotType]]
        /\ \A d \in Directions, i \in Slots : Unused(ctx.slots[d][i]) /\ State(ctx, d, i) = "Idle"
    BY <1>1, UnusedSlots, FreshIs DEF FreshSlots, State
  <1>4. /\ 0 \in Nat /\ 0 \in 0 .. SlotCount /\ 0 \in 0 .. MaxOvertaken /\ 0 <= RetryLimit
    BY EngineConstants
  <1>5. Types
    <2>1. workers \in [Workers -> [pc : Places, slot : 0 .. SlotCount]]
      <3>1. "idle" \in Places
        BY DEF Places
      <3> QED BY <1>4, <3>1 DEF Init, NoWork
    <2>2. routines \in [Requests -> Nat]
      BY <1>4 DEF Init
    <2>3. purge \in [by : Purgers \cup {"none"}, step : PurgeSteps, restart : BOOLEAN]
      BY <1>2 DEF NoPurge, PurgeSteps
    <2>4. threads \in [stop : StopPlaces, pnp : PnpPlaces]
      BY <1>2 DEF StopPlaces, PnpPlaces
    <2> QED BY <1>2, <1>4, <2>1, <2>2, <2>3, <2>4 DEF Types
  <1>6. ctx \in Contexts
    <2>1. [d \in Directions |-> <<>>] \in [Directions -> Seq(Slots)]
      OBVIOUS
    <2>2. [d \in Directions |-> 0] \in [Directions -> Nat]
      OBVIOUS
    <2>3. FreshSlots \in [Directions -> [Slots -> SlotType]]
      BY <1>1, <1>3
    <2> HIDE DEF FreshSlots
    <2> QED BY <1>4, <2>1, <2>2, <2>3 DEF Init, Contexts
  <1>7. CtxOk(ctx)
    <2>1. 0 <= 0
      OBVIOUS
    <2>2. \A d \in Directions, i \in Slots :
            ctx.slots[d][i].gen = 0 /\ ctx.slots[d][i].sentIn = 0
      BY <1>3 DEF Unused
    <2> QED BY <1>1, <1>6, <2>1, <2>2 DEF CtxOk
  <1>8. BusOk(ctx, bus)
    BY <1>2, <1>3 DEF BusOk
  <1>9. FlightOk(ctx, bus, routines, overtaken)
    <2>1. \A d \in Directions : InFlight(ctx, d) = {} /\ ctx.outstanding[d] = 0
      BY <1>1, <1>3 DEF InFlight, Unused
    <2>2. Cardinality({}) = 0 /\ 0 >= 0
      BY FS_EmptySet
    <2>3. \A d \in Directions, i \in Slots : ~ctx.slots[d][i].inFlight
      BY <1>3 DEF Unused
    <2> QED BY <2>1, <2>2, <2>3 DEF FlightOk
  <1>10. OrderOk(ctx)
    <2>1. \A d \in Directions : LiveSlots(ctx, d) = {} /\ ctx.order[d] = <<>>
      BY <1>1, <1>3 DEF LiveSlots, Live
    <2> QED BY <2>1, NoOrder DEF OrderOk
  <1>11. WorkInv
    <2>1. \A w \in Workers : lock # w
      BY <1>2, WorkersApart
    <2>2. purge.step # "target" /\ lock # "purge"
      BY <1>2 DEF NoPurge
    <2> QED BY <1>1, <1>2, <2>1, <2>2 DEF WorkInv, Locked, Working, Looking, Capturing
  <1>12. PairInv
    BY <1>2, <1>3 DEF PairInv, At, Directions
  <1>13. FoundInv
    BY <1>1 DEF FoundInv, Found
  <1>14. Quiet
    BY <1>1, <1>2 DEF Quiet, ProcessIdle, At
  <1>15. NoneLive(ctx) /\ AllAllocated(ctx) /\ \A d \in Directions, i \in Slots : ~ctx.slots[d][i].inFlight
    BY <1>3, PairsAre DEF NoneLive, AllAllocated, Unused, State
  <1>16. StopInv
    BY <1>1, <1>2, <1>14, <1>15 DEF StopInv, NoPurge
  <1>17. PnpInv
    BY <1>1, <1>2 DEF PnpInv, NoPurge, Gone
  <1> QED BY <1>5, <1>7, <1>8, <1>9, <1>10, <1>11, <1>12, <1>13, <1>16, <1>17 DEF IInv, Core

LEMMA StepHolds ==
    ASSUME IInv, [Next]_vars
    PROVE  IInv'
  <1>1. CASE UsbStep
    <2>1. PICK r \in Requests, o \in {"data", "empty", "error"} : Complete(r[1], r[2], o)
      BY <1>1 DEF UsbStep
    <2>2. r[1] \in Directions /\ r[2] \in Slots
      BY PairsAre
    <2> QED BY <2>1, <2>2, CompleteHolds
  <1>2. CASE CompletionStep
    <2>1. PICK r \in Requests : RetireRequest(r[1], r[2])
      BY <1>2 DEF CompletionStep
    <2>2. r[1] \in Directions /\ r[2] \in Slots
      BY PairsAre
    <2> QED BY <2>1, <2>2, RetireHolds
  <1>3. CASE \E w \in Workers : WorkerStep(w)
    BY <1>3, WorkerStepHolds
  <1>4. CASE PurgeStep
    BY <1>4, EnterPurgeHolds, PurgeTargetsHolds, FlushProcessHolds, PublishPurgeHolds DEF PurgeStep
  <1>5. CASE StopStep
    BY <1>5, BeginStopHolds, PurgeByStopHolds, EndStopHolds DEF StopStep
  <1>6. CASE CallerStep
    BY <1>6, RequestHolds, StartHolds, PurgeByCallerHolds DEF CallerStep
  <1>7. CASE PnpStep
    BY <1>7, ReleaseHardwareHolds, FlushForDestroyHolds, DestroyTransportHolds, PrepareHolds
       DEF PnpStep
  <1>8. CASE UNCHANGED vars
    BY <1>8, RequestHolds
  <1> QED BY <1>1, <1>2, <1>3, <1>4, <1>5, <1>6, <1>7, <1>8 DEF Next

\* The inductive invariant holds in every state that the engine reaches.
THEOREM EngineHolds == Spec => []IInv
  <1>1. Init => IInv
    BY InitHolds
  <1>2. IInv /\ [Next]_vars => IInv'
    BY StepHolds
  <1> QED BY <1>1, <1>2, PTL DEF Spec

(***************************************************************************)
(* What the engine promises                                                *)
(***************************************************************************)
LEMMA TypesHold ==
    ASSUME IInv
    PROVE  TypeOK
  <1>1. Types /\ ctx \in Contexts /\ CtxOk(ctx)
    BY DEF IInv, Core, CtxOk
  <1>2. /\ ctx.state \in {"Stopped", "Running", "Stopping"}
        /\ ctx.gen \in Nat /\ ctx.healthyGen \in 0 .. ctx.gen
        /\ \A d \in Directions : ctx.order[d] \in Seq(Slots) /\ ctx.outstanding[d] \in Nat
    BY <1>1 DEF Contexts, CtxOk
  <1>3. \A r \in Requests : LET s == ctx.slots[r[1]][r[2]]
         IN /\ s.state \in {"Uninitialized", "Idle", "Submitted", "Completed", "Processing"}
            /\ s.inFlight \in BOOLEAN /\ s.needsReuse \in BOOLEAN
            /\ s.gen \in 0 .. ctx.gen /\ s.sentIn \in 0 .. ctx.gen
            /\ s.failures \in 0 .. RetryLimit + 1
            /\ s.outcome \in {"data", "empty", "error"}
    <2> TAKE r \in Requests
    <2> DEFINE s == ctx.slots[r[1]][r[2]]
    <2>1. r[1] \in Directions /\ r[2] \in Slots
      BY PairsAre
    <2>2. s \in SlotType
      BY <1>1, <2>1 DEF Contexts
    <2>3. s.gen <= ctx.gen /\ s.sentIn <= ctx.gen
      BY <1>1, <2>1 DEF CtxOk
    <2> HIDE DEF s
    <2>4. /\ s.state \in {"Uninitialized", "Idle", "Submitted", "Completed", "Processing"}
          /\ s.inFlight \in BOOLEAN /\ s.needsReuse \in BOOLEAN
          /\ s.gen \in 0 .. ctx.gen /\ s.sentIn \in 0 .. ctx.gen
          /\ s.failures \in 0 .. RetryLimit + 1
          /\ s.outcome \in {"data", "empty", "error"}
      BY <1>2, <2>2, <2>3 DEF SlotType, States
    <2> QED BY <2>4 DEF s
  <1>4. purge.by \in Purgers \cup {"none"} /\ purge.step \in PurgeSteps
    BY <1>1 DEF Types
  <1>5. threads["stop"] \in StopPlaces /\ threads["pnp"] \in PnpPlaces
    BY <1>1 DEF Types
  <1> QED BY <1>1, <1>2, <1>3, <1>4, <1>5 DEF TypeOK, Types, PurgeSteps, StopPlaces, PnpPlaces

\* RequestsAccounted: the outstanding counters that the start, the purge and the destruction of
\* the transport look at count the requests in flight, as long as no slot was resubmitted under
\* its completion routine, and are never negative; and a stopped engine has no request.
THEOREM CountsAreExact == Spec => []RequestsAccounted
  <1>1. IInv => RequestsAccounted
    <2> SUFFICES ASSUME IInv PROVE RequestsAccounted
      OBVIOUS
    <2>1. OutstandingExact
      BY TypesHold DEF OutstandingExact, IInv, Core, FlightOk, InFlight
    <2>2. StoppedIsQuiet
      BY PairsAre DEF StoppedIsQuiet, IInv, StopInv, Quiet, NoRoutines, NoneLive, State
    <2> QED BY <2>1, <2>2 DEF RequestsAccounted
  <1> QED BY <1>1, EngineHolds, PTL

\* NoStrandedCompletion: when neither a completion routine nor the work item is under way, no
\* slot is left that the work item could process.
THEOREM NothingIsStranded == Spec => []NoStrandedCompletion
  <1>1. IInv => NoStrandedCompletion
    <2> SUFFICES ASSUME IInv, ProcessIdle, NoRoutines, NEW d \in Directions, Found(ctx, d)
                 PROVE  FALSE
      BY DEF NoStrandedCompletion, NoRoutines
    <2>1. ~ctx.queued /\ \A w \in Workers : workers[w].pc = "idle"
      BY DEF ProcessIdle, At
    <2>2. Attended(d)
      BY DEF IInv, FoundInv
    <2>3. ~ctx.active
      BY <2>1 DEF IInv, WorkInv, Working, Looking, Capturing
    <2> QED BY <2>1, <2>2, <2>3 DEF Attended, Looking, Capturing, At
  <1> QED BY <1>1, EngineHolds, PTL

\* GenerationFence: the requests on the bus of a running engine are those that it sent since its
\* start.
THEOREM GenerationsApart == Spec => []GenerationFence
  <1>1. IInv => GenerationFence
    <2> SUFFICES ASSUME IInv, ctx.running, NEW r \in bus
                 PROVE  ctx.slots[r[1]][r[2]].sentIn = ctx.gen
      BY DEF GenerationFence
    <2>1. r[1] \in Directions /\ r[2] \in Slots /\ r = <<r[1], r[2]>>
      BY PairsAre DEF IInv, Types
    <2>2. BusOk(ctx, bus)
      BY DEF IInv, Core
    <2>3. <<r[1], r[2]>> \in bus
      BY <2>1
    <2> QED BY <2>1, <2>2, <2>3 DEF BusOk
  <1> QED BY <1>1, EngineHolds, PTL

\* ReleaseSucceeds: ReleaseHardware never finds a transport in use that was allocated completely,
\* unless a slot was resubmitted under its completion routine.
THEOREM ReleasesSucceed == Spec => []ReleaseSucceeds
  <1>1. IInv => ReleaseSucceeds
    BY DEF IInv, PnpInv, ReleaseSucceeds, ReleaseResetsPipes
  <1> QED BY <1>1, EngineHolds, PTL

\* OrderedPurgeDrains: a purge of a transport that was allocated completely ends in Stopped,
\* unless a slot was resubmitted under its completion routine.
THEOREM PurgesDrain == Spec => OrderedPurgeDrains
  <1>1. IInv /\ [Next]_vars =>
          [PublishPurge /\ overtaken = 0 /\ AllAllocated(ctx) => ctx'.state = "Stopped"]_vars
    <2> SUFFICES ASSUME IInv, PublishPurge, overtaken = 0, AllAllocated(ctx)
                 PROVE  ctx'.state = "Stopped"
      OBVIOUS
    <2>1. purge.step = "publish"
      BY DEF PublishPurge
    <2>2. Quiet
      BY <2>1 DEF IInv, StopInv, Quiet
    <2>3. Quiescent(ctx)
      BY <2>2, PurgeDrains
    <2>4. PICK restarted : ctx' = Published(ctx, restarted)
      BY DEF PublishPurge
    <2>5. ctx \in Contexts
      BY DEF IInv, Core, CtxOk
    <2> QED BY <2>3, <2>4, <2>5 DEF Published, Contexts
  <1> QED BY <1>1, EngineHolds, PTL DEF Spec, OrderedPurgeDrains
=============================================================================
