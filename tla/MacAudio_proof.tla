--------------------------- MODULE MacAudio_proof ----------------------------
(***************************************************************************)
(* Proofs about the CoreAudio plug-in, for every set of clients, rates,     *)
(* buffer sizes and streams: the device (HalDevice), the IO cycle, and the  *)
(* place in the frame at which the playback path (MacPlayback) writes.      *)
(***************************************************************************)
EXTENDS HalIoCycle, MacPlayback, FiniteSums, SequenceTheorems

(***************************************************************************)
(* The engine.  Whichever way a call ends, the engine that is left has the  *)
(* rate it was given, streams only if the call started it, and was made.    *)
(***************************************************************************)
EngineType == [made : BOOLEAN, rate : Rates, open : BOOLEAN, streaming : BOOLEAN, unsafe : BOOLEAN]

\* A new engine.
LEMMA NewEngineType ==
    ASSUME NEW rate \in Rates
    PROVE  /\ NewEngine(rate) \in EngineType
           /\ NewEngine(rate).made /\ NewEngine(rate).rate = rate /\ ~NewEngine(rate).streaming
           /\ NoEngine \in EngineType /\ ~NoEngine.streaming
  BY HalConstants DEF NewEngine, NoEngine, EngineType

\* The two parts of an outcome.
LEMMA OutcomeParts ==
    ASSUME NEW o, NEW e, o = Outcome(e, TRUE) \/ o = Outcome(e, FALSE)
    PROVE  o.engine = e /\ o.ok \in BOOLEAN
  <1>1. CASE o = Outcome(e, TRUE)
    BY <1>1 DEF Outcome
  <1>2. CASE o = Outcome(e, FALSE)
    BY <1>2 DEF Outcome
  <1> QED BY <1>1, <1>2

\* What a call can change of an engine.
LEMMA ChangedEngine ==
    ASSUME NEW e \in EngineType, NEW f,
           \/ f = [e EXCEPT !.streaming = FALSE]
           \/ f = [e EXCEPT !.streaming = FALSE, !.unsafe = TRUE]
           \/ f = [e EXCEPT !.open = FALSE]
           \/ f = [e EXCEPT !.open = FALSE, !.unsafe = TRUE]
           \/ f = [e EXCEPT !.open = TRUE]
           \/ f = [e EXCEPT !.streaming = TRUE]
    PROVE  /\ f \in EngineType /\ f.made = e.made /\ f.rate = e.rate
           /\ \/ f.streaming = e.streaming
              \/ f = [e EXCEPT !.streaming = TRUE]
              \/ f.streaming = FALSE
  BY DEF EngineType

\* stop
LEMMA StopOutcome ==
    ASSUME NEW e \in EngineType, NEW o \in EngineStop(e)
    PROVE  /\ o.engine \in EngineType /\ o.ok \in BOOLEAN
           /\ o.engine.made = e.made /\ o.engine.rate = e.rate
           /\ ~o.engine.streaming
  <1>1. CASE e.streaming
    <2>1. PICK f \in {[e EXCEPT !.streaming = FALSE], [e EXCEPT !.streaming = FALSE, !.unsafe = TRUE]} :
              o = Outcome(f, TRUE) \/ o = Outcome(f, FALSE)
      BY <1>1 DEF EngineStop
    <2>2. f \in EngineType /\ f.made = e.made /\ f.rate = e.rate /\ ~f.streaming
      <3>1. f.streaming = FALSE
        BY DEF EngineType
      <3>2. \/ f = [e EXCEPT !.streaming = FALSE]
            \/ f = [e EXCEPT !.streaming = FALSE, !.unsafe = TRUE]
        BY <2>1
      <3> QED BY <3>1, <3>2, ChangedEngine
    <2>3. o.engine = f /\ o.ok \in BOOLEAN
      BY <2>1, OutcomeParts
    <2> QED BY <2>2, <2>3
  <1>2. CASE ~e.streaming
    <2>1. o = Outcome(e, ~e.unsafe)
      BY <1>2 DEF EngineStop
    <2>2. o.engine = e /\ o.ok \in BOOLEAN
      BY <2>1 DEF Outcome
    <2> QED BY <1>2, <2>2
  <1> QED BY <1>1, <1>2

\* close
LEMMA CloseOutcome ==
    ASSUME NEW e \in EngineType, NEW o \in EngineClose(e)
    PROVE  /\ o.engine \in EngineType /\ o.ok \in BOOLEAN
           /\ o.engine.made = e.made /\ o.engine.rate = e.rate
           /\ ~o.engine.streaming
  <1>1. PICK s \in EngineStop(e) :
            \/ o = s
            \/ o = Outcome([s.engine EXCEPT !.open = FALSE], TRUE)
            \/ o = Outcome([s.engine EXCEPT !.open = FALSE, !.unsafe = TRUE], FALSE)
    BY DEF EngineClose
  <1>2. /\ s.engine \in EngineType /\ s.ok \in BOOLEAN
        /\ s.engine.made = e.made /\ s.engine.rate = e.rate /\ ~s.engine.streaming
    BY StopOutcome
  <1>3. CASE o = s
    BY <1>2, <1>3
  <1>4. CASE o # s
    <2>1. PICK f \in {[s.engine EXCEPT !.open = FALSE], [s.engine EXCEPT !.open = FALSE, !.unsafe = TRUE]} :
              o = Outcome(f, TRUE) \/ o = Outcome(f, FALSE)
      BY <1>1, <1>4
    <2>2. /\ f \in EngineType /\ f.made = e.made /\ f.rate = e.rate
          /\ f.streaming = s.engine.streaming
      <3>1. \/ f = [s.engine EXCEPT !.open = FALSE]
            \/ f = [s.engine EXCEPT !.open = FALSE, !.unsafe = TRUE]
        BY <2>1
      <3>2. f.streaming = s.engine.streaming
        BY <1>2, <3>1 DEF EngineType
      <3> QED BY <1>2, <3>1, <3>2, ChangedEngine
    <2>3. o.engine = f /\ o.ok \in BOOLEAN
      BY <2>1, OutcomeParts
    <2> QED BY <1>2, <2>2, <2>3
  <1> QED BY <1>3, <1>4

\* ensureOpen
LEMMA EnsureOutcome ==
    ASSUME NEW e \in EngineType, NEW o \in EngineEnsureOpen(e)
    PROVE  /\ o.engine \in EngineType /\ o.ok \in BOOLEAN
           /\ o.engine.made = e.made /\ o.engine.rate = e.rate
           /\ o.engine.streaming => e.streaming
  <1>1. CASE e.open \/ e.unsafe
    <2>1. o = Outcome(e, TRUE) \/ o = Outcome(e, FALSE)
      BY <1>1 DEF EngineEnsureOpen
    <2>2. o.engine = e /\ o.ok \in BOOLEAN
      BY <2>1, OutcomeParts
    <2> QED BY <2>2
  <1>2. CASE ~(e.open \/ e.unsafe)
    <2>1. \/ o = Outcome([e EXCEPT !.open = TRUE], TRUE)
          \/ \E c \in EngineClose(e) : o = Outcome(c.engine, FALSE)
      BY <1>2 DEF EngineEnsureOpen
    <2>2. CASE o = Outcome([e EXCEPT !.open = TRUE], TRUE)
      <3> DEFINE f == [e EXCEPT !.open = TRUE]
      <3>1. o.engine = f /\ o.ok \in BOOLEAN
        BY <2>2, OutcomeParts
      <3>2. f \in EngineType /\ f.made = e.made /\ f.rate = e.rate /\ f.streaming = e.streaming
        BY DEF EngineType
      <3> HIDE DEF f
      <3> QED BY <3>1, <3>2
    <2>3. CASE \E c \in EngineClose(e) : o = Outcome(c.engine, FALSE)
      <3>1. PICK c \in EngineClose(e) : o = Outcome(c.engine, FALSE)
        BY <2>3
      <3>2. /\ c.engine \in EngineType /\ c.engine.made = e.made /\ c.engine.rate = e.rate
            /\ ~c.engine.streaming
        BY CloseOutcome
      <3> QED BY <3>1, <3>2, OutcomeParts
    <2> QED BY <2>1, <2>2, <2>3
  <1> QED BY <1>1, <1>2

\* start
LEMMA StartOutcome ==
    ASSUME NEW e \in EngineType, NEW o \in EngineStart(e)
    PROVE  /\ o.engine \in EngineType /\ o.ok \in BOOLEAN
           /\ o.engine.made = e.made /\ o.engine.rate = e.rate
           /\ o.ok => o.engine.streaming
  <1>1. CASE e.streaming
    <2>1. o = Outcome(e, TRUE)
      BY <1>1 DEF EngineStart
    <2> QED BY <1>1, <2>1, OutcomeParts
  <1>2. CASE ~e.streaming
    <2>1. PICK p \in EngineEnsureOpen(e) :
              \/ o = p /\ ~p.ok
              \/ o = Outcome(p.engine, FALSE)
              \/ o = Outcome([p.engine EXCEPT !.streaming = TRUE], TRUE)
      BY <1>2 DEF EngineStart
    <2>2. /\ p.engine \in EngineType /\ p.ok \in BOOLEAN
          /\ p.engine.made = e.made /\ p.engine.rate = e.rate
      BY EnsureOutcome
    <2>3. CASE o = Outcome([p.engine EXCEPT !.streaming = TRUE], TRUE)
      <3> DEFINE f == [p.engine EXCEPT !.streaming = TRUE]
      <3>1. o.engine = f /\ o.ok \in BOOLEAN
        BY <2>3, OutcomeParts
      <3>2. f \in EngineType /\ f.made = e.made /\ f.rate = e.rate /\ f.streaming
        BY <2>2 DEF EngineType
      <3> HIDE DEF f
      <3> QED BY <3>1, <3>2
    <2>4. CASE o = Outcome(p.engine, FALSE)
      <3>1. o.engine = p.engine /\ o.ok = FALSE
        BY <2>4 DEF Outcome
      <3> QED BY <2>2, <3>1
    <2> QED BY <2>1, <2>2, <2>3, <2>4
  <1> QED BY <1>1, <1>2

\* OpenA8DJUSBStart
LEMMA UsbStartOutcome ==
    ASSUME engine \in EngineType, NEW rate \in Rates, NEW o \in USBStart(rate)
    PROVE  /\ o.engine \in EngineType /\ o.ok \in BOOLEAN
           /\ o.engine.made
           /\ o.engine.streaming => o.engine.rate = rate
           /\ o.ok => o.engine.streaming
  <1>1. CASE o \in EngineStart(NewEngine(rate))
    BY <1>1, NewEngineType, StartOutcome
  <1>2. CASE engine.made /\ engine.rate = rate
    <2>1. o \in EngineStart(engine)
      BY <1>2 DEF USBStart
    <2> QED BY <1>2, <2>1, StartOutcome
  <1>3. CASE engine.made /\ engine.rate # rate
    <2>1. PICK c \in EngineClose(engine) : o \in (IF c.ok THEN EngineStart(NewEngine(rate)) ELSE {c})
      BY <1>3 DEF USBStart
    <2>2. CASE ~c.ok
      BY <1>3, <2>1, <2>2, CloseOutcome
    <2> QED BY <1>1, <2>1, <2>2
  <1> QED BY <1>1, <1>2, <1>3 DEF USBStart

\* OpenA8DJUSBSetSampleRate
LEMMA UsbRateOutcome ==
    ASSUME engine \in EngineType, NEW rate \in Rates, NEW o \in USBSetSampleRate(rate)
    PROVE  /\ o.engine \in EngineType /\ o.ok \in BOOLEAN
           /\ o.engine.made
           /\ o.engine.streaming => o.engine.rate = rate
           /\ o.ok /\ engine.made /\ engine.streaming => o.engine.streaming
  <1>1. CASE o \in EngineStart(NewEngine(rate))
    BY <1>1, NewEngineType, StartOutcome
  <1>2. CASE o = Outcome(NewEngine(rate), TRUE) /\ ~(engine.made /\ engine.streaming)
    BY <1>2, NewEngineType DEF Outcome
  <1>3. CASE engine.made /\ engine.rate = rate
    <2>1. o = Outcome(engine, TRUE)
      BY <1>3 DEF USBSetSampleRate
    <2> QED BY <1>3, <2>1 DEF Outcome
  <1>4. CASE engine.made /\ engine.rate # rate
    <2>1. PICK c \in EngineClose(engine) :
              o \in IF ~c.ok THEN {c}
                    ELSE IF engine.streaming THEN EngineStart(NewEngine(rate))
                    ELSE {Outcome(NewEngine(rate), TRUE)}
      BY <1>4 DEF USBSetSampleRate
    <2>2. CASE ~c.ok
      BY <1>4, <2>1, <2>2, CloseOutcome
    <2> QED BY <1>1, <1>2, <2>1, <2>2
  <1>5. CASE ~engine.made
    BY <1>2, <1>5 DEF USBSetSampleRate
  <1> QED BY <1>3, <1>4, <1>5

\* OpenA8DJUSBEnsureOpen, OpenA8DJUSBClose and OpenA8DJUSBStop
LEMMA UsbIdleOutcome ==
    ASSUME engine \in EngineType, engine.streaming => engine.made
    PROVE  /\ \A rate \in Rates : \A o \in USBEnsureOpen(rate) :
                  o.engine \in EngineType /\ o.engine.made
           /\ \A e \in USBClose : e \in EngineType /\ ~e.streaming
           /\ \A e \in USBStop : e \in EngineType /\ ~e.streaming
  <1>1. ASSUME NEW rate \in Rates, NEW o \in USBEnsureOpen(rate)
        PROVE  o.engine \in EngineType /\ o.engine.made
    <2> DEFINE e == IF engine.made THEN [engine EXCEPT !.rate = rate] ELSE NewEngine(rate)
    <2>1. e \in EngineType /\ e.made
      BY NewEngineType DEF EngineType
    <2>2. o \in EngineEnsureOpen(e)
      BY <1>1 DEF USBEnsureOpen
    <2> HIDE DEF e
    <2> QED BY <2>1, <2>2, EnsureOutcome
  <1>2. ASSUME NEW e \in USBClose PROVE e \in EngineType /\ ~e.streaming
    <2>1. \/ e = NoEngine
          \/ \E c \in EngineClose(engine) : e = c.engine
      BY <1>2 DEF USBClose
    <2> QED BY <2>1, NewEngineType, CloseOutcome, HalConstants
  <1>3. ASSUME NEW e \in USBStop PROVE e \in EngineType /\ ~e.streaming
    <2>1. \/ e = engine /\ ~engine.made
          \/ \E c \in EngineStop(engine) : e = c.engine
      BY <1>3 DEF USBStop
    <2> QED BY <2>1, StopOutcome
  <1> QED BY <1>1, <1>2, <1>3

(***************************************************************************)
(* The device.  A start that holds gIOMutex over its call of the engine     *)
(* holds the host off, and with it the configuration changes and the other  *)
(* starts and stops; so the rate it read without gClockMutex is still the   *)
(* device's when the engine comes back.  A change of rate that has passed   *)
(* PerformRate carries the rate that the engine has still to be told.       *)
(***************************************************************************)
ClockType == [rate : Rates, frames : Sizes, seed : Nat, anchor : Nat, going : BOOLEAN]
PendingType == [rate : Rates \cup {None}, frames : Sizes \cup {None}, asked : SUBSET {"rate", "frames"}]
ThreadsType == [generation : Nat, sleeping : SUBSET [kind : {"preopen", "close"}, generation : Nat]]

DeviceTyped ==
    /\ build \in Builds
    /\ clients \in [Clients -> [active : BOOLEAN, depth : Nat]]
    /\ running \in Nat
    /\ clock \in ClockType
    /\ pending \in PendingType
    /\ config \in [pc : {"idle", "frames", "rate", "usb"}, value : Rates \cup Sizes \cup {None}]
    /\ config.pc \in {"rate", "usb"} => config.value \in Rates
    /\ config.pc = "frames" => config.value \in Sizes
    /\ holder \in [op : {"none", "start", "preopen"}, client : Clients \cup {None},
                   rate : Rates \cup {None}]
    /\ holder.op = "start" => holder.client \in Clients
    /\ holder.op # "none" => holder.rate \in Rates
    /\ threads \in ThreadsType
    /\ engine \in EngineType
    /\ refused \in BOOLEAN
    /\ spent \in [starts : 0 .. MaxStarts, changes : 0 .. MaxChanges]

Held == IF holder.op = "start" THEN 1 ELSE 0
StartsBound ==
    /\ running + Held <= spent.starts
    /\ \A c \in Clients : clients[c].depth + Held <= spent.starts

RunningMeansStreaming == running > 0 /\ ~refused => engine.streaming
HeldStart == holder.op = "start" => holder.rate = clock.rate /\ config = NoChange /\ running = 0
HeldPreopen == holder.op = "preopen" => running = 0
RateToTell == config.pc = "usb" => config.value = clock.rate
StreamingIsMade == engine.streaming => engine.made
EngineServes ==
    /\ StreamingIsMade
    /\ HeldStart
    /\ HeldPreopen
    /\ RateToTell
    /\ RateAgrees
    /\ RunningMeansStreaming

DeviceInv == DeviceTyped /\ StartsBound /\ EngineServes

(***************************************************************************)
(* The clock.                                                               *)
(***************************************************************************)
\* A clock with some fields changed.
LEMMA ClockFields ==
    ASSUME clock \in ClockType, NEW rate \in Rates, NEW frames \in Sizes,
           NEW anchor \in Nat, NEW seed \in Nat
    PROVE  /\ [clock EXCEPT !.going = TRUE, !.anchor = anchor, !.seed = seed] \in ClockType
           /\ [clock EXCEPT !.rate = rate, !.frames = frames, !.anchor = anchor, !.seed = seed]
                  \in ClockType
           /\ [clock EXCEPT !.frames = frames, !.seed = seed] \in ClockType
  BY DEF ClockType

\* What a step can make of the clock: each change of the rate, the buffer size or the anchor
\* takes the next seed.
LEMMA ClockChanges ==
    ASSUME clock \in ClockType, NEW c,
           \/ c \in {clock, StartedClock, StoppedClock}
           \/ \E rate \in Rates : c = AppliedRate(rate)
           \/ \E size \in Sizes : c = AppliedFrames(size)
    PROVE  /\ c \in ClockType
           /\ c.seed >= clock.seed
           /\ <<c.rate, c.frames, c.anchor>> # <<clock.rate, clock.frames, clock.anchor>>
                  => c.seed > clock.seed
  <1>1. CASE c = clock
    BY <1>1 DEF ClockType
  <1>2. CASE c = StartedClock
    <2>1. CASE clock.going
      BY <1>1, <1>2, <2>1 DEF StartedClock
    <2>2. CASE ~clock.going
      <3>0. clock.seed + 1 \in Nat /\ clock.anchor + 1 \in Nat
        BY DEF ClockType
      <3>1. c = [clock EXCEPT !.going = TRUE, !.anchor = @ + 1, !.seed = @ + 1]
        BY <1>2, <2>2 DEF StartedClock, Reanchored, ClockType
      <3>2. c \in ClockType
        BY <3>0, <3>1, HalConstants, ClockFields
      <3>3. c.seed = clock.seed + 1 /\ clock.seed \in Nat
        BY <3>1 DEF ClockType
      <3> QED BY <3>2, <3>3
    <2> QED BY <2>1, <2>2
  <1>3. CASE c = StoppedClock
    <2>1. c \in ClockType
      BY <1>3 DEF StoppedClock, ClockType
    <2>2. c.seed = clock.seed /\ clock.seed \in Nat
      BY <1>3 DEF StoppedClock, ClockType
    <2>3. c.rate = clock.rate /\ c.frames = clock.frames /\ c.anchor = clock.anchor
      BY <1>3 DEF StoppedClock, ClockType
    <2> QED BY <2>1, <2>2, <2>3
  <1>4. ASSUME NEW rate \in Rates, c = AppliedRate(rate)
        PROVE  /\ c \in ClockType
               /\ c.seed > clock.seed \/ c = clock
    <2>1. CASE clock.rate = rate
      BY <1>4, <2>1 DEF AppliedRate
    <2>2. CASE clock.rate # rate
      <3>0. clock.seed + 1 \in Nat /\ clock.anchor + 1 \in Nat
        BY DEF ClockType
      <3>1. c = [clock EXCEPT !.rate = rate, !.frames = PreferredSize, !.anchor = @ + 1,
                              !.seed = @ + 1]
        BY <1>4, <2>2 DEF AppliedRate, Reanchored, ClockType
      <3>2. c \in ClockType
        BY <3>0, <3>1, HalConstants, ClockFields
      <3>3. c.seed = clock.seed + 1 /\ clock.seed \in Nat
        BY <3>1 DEF ClockType
      <3> QED BY <3>2, <3>3
    <2> QED BY <2>1, <2>2
  <1>5. ASSUME NEW size \in Sizes, c = AppliedFrames(size)
        PROVE  /\ c \in ClockType
               /\ c.seed > clock.seed \/ c = clock
    <2>1. CASE clock.frames = size
      BY <1>5, <2>1 DEF AppliedFrames
    <2>2. CASE clock.frames # size
      <3>0. clock.seed + 1 \in Nat /\ clock.anchor + 1 \in Nat
        BY DEF ClockType
      <3>1. c = [clock EXCEPT !.frames = size, !.seed = @ + 1]
        BY <1>5, <2>2 DEF AppliedFrames
      <3>2. c \in ClockType
        BY <3>0, <3>1, HalConstants, ClockFields
      <3>3. c.seed = clock.seed + 1 /\ clock.seed \in Nat
        BY <3>1 DEF ClockType
      <3> QED BY <3>2, <3>3
    <2> QED BY <2>1, <2>2
  <1>6. \A a, b : a \in ClockType /\ b \in ClockType /\ a.seed > b.seed => a.seed >= b.seed
    BY DEF ClockType
  <1> QED BY <1>1, <1>2, <1>3, <1>4, <1>5, <1>6

\* The rate changes only when PerformRate applies it.
LEMMA ClockRates ==
    ASSUME clock \in ClockType
    PROVE  /\ StartedClock.rate = clock.rate /\ StoppedClock.rate = clock.rate
           /\ \A rate \in Rates : AppliedRate(rate).rate = rate
           /\ \A size \in Sizes : AppliedFrames(size).rate = clock.rate
  <1>1. ASSUME NEW rate \in Rates PROVE AppliedRate(rate).rate = rate
    BY DEF AppliedRate, Reanchored, ClockType
  <1>2. ASSUME NEW size \in Sizes PROVE AppliedFrames(size).rate = clock.rate
    BY DEF AppliedFrames, ClockType
  <1>3. StartedClock.rate = clock.rate /\ StoppedClock.rate = clock.rate
    BY DEF StartedClock, StoppedClock, Reanchored, ClockType
  <1> QED BY <1>1, <1>2, <1>3

(***************************************************************************)
(* One lemma for each kind of step of the device.                           *)
(***************************************************************************)
\* A client that starts: the first keeps the host out, the next ones are counted.
LEMMA StartDevice ==
    ASSUME DeviceInv, NEW c \in Clients, StartIO(c)
    PROVE  DeviceInv'
  <1> USE DEF DeviceInv
  <1>1. /\ holder = NoCall /\ config = NoChange
        /\ spent.starts < MaxStarts
        /\ spent' = [spent EXCEPT !.starts = @ + 1]
        /\ threads' = [threads EXCEPT !.generation = @ + 1]
        /\ UNCHANGED <<build, pending, config, engine, refused>>
    BY DEF StartIO, HostMayCall, MutexFree
  <1>2. /\ spent' \in [starts : 0 .. MaxStarts, changes : 0 .. MaxChanges]
        /\ spent'.starts = spent.starts + 1 /\ spent.starts \in Nat
        /\ threads' \in ThreadsType
    <2>1. spent'.starts = spent.starts + 1 /\ spent.starts \in Nat
      BY <1>1 DEF DeviceTyped
    <2>2. spent' \in [starts : 0 .. MaxStarts, changes : 0 .. MaxChanges]
      BY <1>1, HalConstants DEF DeviceTyped
    <2>3. threads' \in ThreadsType
      BY <1>1 DEF DeviceTyped, ThreadsType
    <2> QED BY <2>1, <2>2, <2>3
  <1>3. CASE running = 0
    <2>1. /\ clock' = StartedClock
          /\ holder' = [op |-> "start", client |-> c, rate |-> clock.rate]
          /\ clients' = [clients EXCEPT ![c].active = TRUE]
          /\ running' = running
      BY <1>3 DEF StartIO
    <2>2. clock' \in ClockType /\ clock'.rate = clock.rate
      BY <2>1, ClockChanges, ClockRates DEF DeviceTyped
    <2>3. /\ clients' \in [Clients -> [active : BOOLEAN, depth : Nat]]
          /\ \A d \in Clients : clients'[d].depth = clients[d].depth
      BY <2>1 DEF DeviceTyped
    <2>4. /\ holder' \in [op : {"none", "start", "preopen"}, client : Clients \cup {None},
                          rate : Rates \cup {None}]
          /\ holder'.op = "start" /\ holder'.client \in Clients /\ holder'.rate = clock.rate
          /\ clock.rate \in Rates
      BY <2>1 DEF DeviceTyped, ClockType
    <2>5. DeviceTyped'
      BY <1>1, <1>2, <2>1, <2>2, <2>3, <2>4 DEF DeviceTyped
    <2>6. StartsBound'
      <3>1. Held = 0 /\ Held' = 1
        BY <1>1, <2>4 DEF Held, NoCall
      <3> QED BY <1>2, <2>1, <2>3, <3>1 DEF StartsBound, DeviceTyped
    <2>7. EngineServes'
      BY <1>1, <1>3, <2>1, <2>2, <2>4
         DEF EngineServes, StreamingIsMade, HeldStart, HeldPreopen, RateToTell, RateAgrees,
             RunningMeansStreaming
    <2> QED BY <2>5, <2>6, <2>7
  <1>4. CASE running # 0
    <2>1. /\ clients' = [clients EXCEPT ![c] = [active |-> TRUE, depth |-> clients[c].depth + 1]]
          /\ running' = running + 1
          /\ UNCHANGED <<clock, holder>>
      BY <1>4 DEF StartIO
    <2>2. /\ clients' \in [Clients -> [active : BOOLEAN, depth : Nat]]
          /\ \A d \in Clients : clients'[d].depth \in {clients[d].depth, clients[d].depth + 1}
      BY <2>1 DEF DeviceTyped
    <2>3. DeviceTyped'
      BY <1>1, <1>2, <2>1, <2>2 DEF DeviceTyped
    <2>4. StartsBound'
      <3>1. Held = 0 /\ Held' = 0
        BY <1>1, <2>1 DEF Held, NoCall
      <3>2. \A d \in Clients : clients[d].depth \in Nat
        BY DEF DeviceTyped
      <3> QED BY <1>2, <2>1, <2>2, <3>1, <3>2 DEF StartsBound, DeviceTyped
    <2>5. running > 0 /\ running' > 0
      BY <1>4, <2>1 DEF DeviceTyped
    <2>6. EngineServes'
      BY <1>1, <2>1, <2>5
         DEF EngineServes, StreamingIsMade, HeldStart, HeldPreopen, RateToTell, RateAgrees,
             RunningMeansStreaming, NoChange, NoCall
    <2> QED BY <2>3, <2>4, <2>6
  <1> QED BY <1>3, <1>4

\* The start that comes back has its engine at the rate it asked for, which is still the
\* device's.
LEMMA StartedDevice ==
    ASSUME DeviceInv, StartIOReturns
    PROVE  DeviceInv'
  <1> USE DEF DeviceInv
  <1>1. /\ holder.op = "start" /\ holder' = NoCall
        /\ UNCHANGED <<build, pending, config, threads, spent>>
    BY DEF StartIOReturns
  <1>2. /\ holder.rate \in Rates /\ holder.client \in Clients
        /\ holder.rate = clock.rate /\ config = NoChange /\ running = 0
    BY <1>1 DEF DeviceTyped, EngineServes, HeldStart
  <1>3. PICK o \in USBStart(holder.rate) :
            /\ engine' = o.engine
            /\ IF o.ok
               THEN /\ running' = running + 1
                    /\ clients' = [clients EXCEPT ![holder.client].depth = @ + 1]
                    /\ clock' = clock
                    /\ refused' = FALSE
               ELSE /\ clock' = StoppedClock
                    /\ UNCHANGED <<running, clients, refused>>
    BY DEF StartIOReturns
  <1>4. /\ engine' \in EngineType /\ engine'.made
        /\ engine'.streaming => engine'.rate = clock.rate
        /\ o.ok => engine'.streaming
    BY <1>2, <1>3, UsbStartOutcome DEF DeviceTyped
  <1>5. clock' \in ClockType /\ clock'.rate = clock.rate
    BY <1>3, ClockChanges, ClockRates DEF DeviceTyped
  <1>6. /\ clients' \in [Clients -> [active : BOOLEAN, depth : Nat]]
        /\ \A d \in Clients : clients'[d].depth \in {clients[d].depth, clients[d].depth + 1}
    <2>1. CASE o.ok
      BY <1>2, <1>3, <2>1 DEF DeviceTyped
    <2>2. CASE ~o.ok
      BY <1>3, <2>2 DEF DeviceTyped
    <2> QED BY <2>1, <2>2
  <1>7. NoCall \in [op : {"none", "start", "preopen"}, client : Clients \cup {None},
                    rate : Rates \cup {None}] /\ NoCall.op = "none"
    BY DEF NoCall
  <1>8. running' \in {0, 1} /\ refused' \in BOOLEAN
    <2>1. running' \in {0, 1}
      BY <1>2, <1>3
    <2>2. refused' = FALSE \/ refused' = refused
      BY <1>3
    <2> QED BY <2>1, <2>2 DEF DeviceTyped
  <1>9. DeviceTyped'
    BY <1>1, <1>4, <1>5, <1>6, <1>7, <1>8 DEF DeviceTyped
  <1>10. StartsBound'
    <2>1. Held = 1 /\ Held' = 0
      BY <1>1, <1>7 DEF Held
    <2>2. spent.starts \in Nat /\ \A d \in Clients : clients[d].depth \in Nat
      BY DEF DeviceTyped
    <2> QED BY <1>1, <1>2, <1>6, <1>8, <2>1, <2>2 DEF StartsBound
  <1>11. running' > 0 => o.ok
    BY <1>2, <1>3
  <1>12. EngineServes'
    BY <1>1, <1>2, <1>4, <1>5, <1>7, <1>11
       DEF EngineServes, StreamingIsMade, HeldStart, HeldPreopen, RateToTell, RateAgrees,
           RunningMeansStreaming, NoChange
  <1> QED BY <1>9, <1>10, <1>12

\* A device that nobody uses any more, or that somebody still uses as before.
LEMMA StopDevice ==
    ASSUME DeviceInv, holder = NoCall, config = NoChange, StopIfLast,
           running' \in Nat, running' <= running,
           clients' \in [Clients -> [active : BOOLEAN, depth : Nat]],
           \A d \in Clients : clients'[d].depth <= clients[d].depth,
           UNCHANGED <<build, pending, config, holder, refused, spent>>
    PROVE  DeviceInv'
  <1> USE DEF DeviceInv
  <1>1. StartsBound'
    <2>1. Held = 0 /\ Held' = 0
      BY DEF Held, NoCall
    <2>2. spent.starts \in Nat /\ running \in Nat /\ \A d \in Clients : clients[d].depth \in Nat
      BY DEF DeviceTyped
    <2>3. \A d \in Clients : clients'[d].depth \in Nat
      OBVIOUS
    <2> QED BY <2>1, <2>2, <2>3 DEF StartsBound
  <1>2. CASE running' # 0
    <2>1. UNCHANGED <<clock, engine, threads>>
      BY <1>2 DEF StopIfLast, StillServed
    <2>2. running > 0
      BY <1>2 DEF DeviceTyped
    <2>3. DeviceTyped'
      BY <2>1 DEF DeviceTyped
    <2>4. EngineServes'
      BY <2>1, <2>2 DEF EngineServes, StreamingIsMade, HeldStart, HeldPreopen, RateToTell,
                        RateAgrees, RunningMeansStreaming, NoCall, NoChange
    <2> QED BY <1>1, <2>3, <2>4
  <1>3. CASE running' = 0
    <2>1. StopAfterLastClient \/ StopAfterLastClientThreadless
      BY <1>3 DEF StopIfLast
    <2>2. clock' = StoppedClock
      BY <2>1 DEF StopAfterLastClient, StopAfterLastClientThreadless
    <2>3. clock' \in ClockType
      BY <2>2, ClockChanges DEF DeviceTyped
    <2>4. engine' = engine \/ engine' \in USBStop \/ engine' \in USBClose
      BY <2>1 DEF StopAfterLastClient, StopAfterLastClientThreadless
    <2>5. engine' \in EngineType /\ (engine'.streaming => engine'.made)
      BY <2>4, UsbIdleOutcome DEF DeviceTyped, EngineServes, StreamingIsMade
    <2>6. threads' \in ThreadsType
      <3>1. threads.generation + 1 \in Nat
        BY DEF DeviceTyped, ThreadsType
      <3>2. CASE threads' = ScheduledClose
        <4> DEFINE new == [kind |-> "close", generation |-> threads.generation + 1]
        <4>1. new \in [kind : {"preopen", "close"}, generation : Nat]
          BY <3>1
        <4>2. threads' = [generation |-> threads.generation + 1,
                          sleeping |-> threads.sleeping \cup {new}]
          BY <3>2 DEF ScheduledClose
        <4> HIDE DEF new
        <4> QED BY <3>1, <4>1, <4>2 DEF DeviceTyped, ThreadsType
      <3>3. CASE threads' = [threads EXCEPT !.generation = @ + 1]
        BY <3>1, <3>3 DEF DeviceTyped, ThreadsType
      <3> QED BY <2>1, <3>2, <3>3 DEF StopAfterLastClient, StopAfterLastClientThreadless
    <2>7. DeviceTyped'
      BY <2>3, <2>5, <2>6 DEF DeviceTyped
    <2>8. EngineServes'
      BY <1>3, <2>5 DEF EngineServes, StreamingIsMade, HeldStart, HeldPreopen, RateToTell,
                        RateAgrees, RunningMeansStreaming, NoCall, NoChange
    <2> QED BY <1>1, <2>7, <2>8
  <1> QED BY <1>2, <1>3

\* A client stops, or goes with all that it has started.
LEMMA LeaveDevice ==
    ASSUME DeviceInv, NEW c \in Clients, StopIO(c) \/ RemoveDeviceClient(c)
    PROVE  DeviceInv'
  <1> USE DEF DeviceInv
  <1>0. running \in Nat /\ clients[c] \in [active : BOOLEAN, depth : Nat]
    BY DEF DeviceTyped
  <1>1. CASE StopIO(c)
    <2>1. /\ holder = NoCall /\ config = NoChange /\ StopIfLast
          /\ clients[c].depth > 0 /\ running > 0
          /\ clients' = [clients EXCEPT ![c].depth = @ - 1] /\ running' = running - 1
          /\ UNCHANGED <<build, pending, config, holder, refused, spent>>
      BY <1>1 DEF StopIO, HostMayCall, MutexFree
    <2>2. /\ clients' \in [Clients -> [active : BOOLEAN, depth : Nat]]
          /\ \A d \in Clients : clients'[d].depth <= clients[d].depth
      BY <1>0, <2>1 DEF DeviceTyped
    <2>3. running' \in Nat /\ running' <= running
      BY <1>0, <2>1
    <2> QED BY <2>1, <2>2, <2>3, StopDevice
  <1>2. CASE RemoveDeviceClient(c)
    <2>1. /\ holder = NoCall /\ config = NoChange
          /\ clients' = [clients EXCEPT ![c] = Unused]
          /\ running' = IF clients[c].depth > running THEN 0 ELSE running - clients[c].depth
          /\ IF clients[c].depth > 0 THEN StopIfLast ELSE StillServed
          /\ UNCHANGED <<build, pending, config, holder, refused, spent>>
      BY <1>2 DEF RemoveDeviceClient, HostMayCall, MutexFree
    <2>2. /\ clients' \in [Clients -> [active : BOOLEAN, depth : Nat]]
          /\ \A d \in Clients : clients'[d].depth <= clients[d].depth
      BY <1>0, <2>1 DEF DeviceTyped, Unused
    <2>3. running' \in Nat /\ running' <= running
      BY <1>0, <2>1
    <2>4. CASE clients[c].depth > 0
      BY <2>1, <2>2, <2>3, <2>4, StopDevice
    <2>5. CASE ~(clients[c].depth > 0)
      <3>1. running' = running /\ UNCHANGED <<clock, engine, threads>>
        BY <1>0, <2>1, <2>5 DEF StillServed
      <3>2. DeviceTyped'
        BY <2>1, <2>2, <3>1 DEF DeviceTyped
      <3>3. StartsBound'
        <4>1. Held = 0 /\ Held' = 0
          BY <2>1 DEF Held, NoCall
        <4>2. spent.starts \in Nat /\ \A d \in Clients : clients[d].depth \in Nat
          BY DEF DeviceTyped
        <4>3. \A d \in Clients : clients'[d].depth \in Nat
          BY <2>2
        <4> QED BY <2>1, <2>2, <3>1, <4>1, <4>2, <4>3 DEF StartsBound
      <3>4. EngineServes'
        BY <2>1, <3>1 DEF EngineServes, StreamingIsMade, HeldStart, HeldPreopen, RateToTell,
                          RateAgrees, RunningMeansStreaming
      <3> QED BY <3>2, <3>3, <3>4
    <2> QED BY <2>4, <2>5
  <1> QED BY <1>1, <1>2

\* A thread that wakes touches the engine only when nobody runs.
LEMMA BackgroundDevice ==
    ASSUME DeviceInv, Background
    PROVE  DeviceInv'
  <1> USE DEF DeviceInv
  <1>0. ASSUME NEW t, Wake(t) PROVE threads' \in ThreadsType
    BY <1>0 DEF Wake, DeviceTyped, ThreadsType
  <1>1. ASSUME NEW t \in threads.sleeping, DelayedClose(t) PROVE DeviceInv'
    <2>1. /\ Wake(t) /\ holder = NoCall
          /\ UNCHANGED <<build, clients, running, clock, pending, config, holder, refused, spent>>
          /\ engine' = engine \/ (running = 0 /\ engine' \in USBClose)
      BY <1>1 DEF DelayedClose, MutexFree, StillWanted
    <2>2. engine' \in EngineType /\ (engine'.streaming => engine'.made)
      BY <2>1, UsbIdleOutcome DEF DeviceTyped, EngineServes, StreamingIsMade
    <2>3. DeviceTyped' /\ StartsBound'
      BY <1>0, <2>1, <2>2 DEF DeviceTyped, StartsBound, Held
    <2>4. EngineServes'
      BY <2>1, <2>2 DEF EngineServes, StreamingIsMade, HeldStart, HeldPreopen, RateToTell,
                        RateAgrees, RunningMeansStreaming
    <2> QED BY <2>3, <2>4
  <1>2. ASSUME NEW t \in threads.sleeping, PreopenBegins(t) PROVE DeviceInv'
    <2> DEFINE call == [op |-> "preopen", client |-> None, rate |-> clock.rate]
    <2>1. /\ Wake(t) /\ holder = NoCall
          /\ holder' = holder \/ (running = 0 /\ holder' = call)
          /\ UNCHANGED <<build, clients, running, clock, pending, config, engine, refused, spent>>
      BY <1>2 DEF PreopenBegins, MutexFree, StillWanted
    <2>2. /\ call \in [op : {"none", "start", "preopen"}, client : Clients \cup {None},
                       rate : Rates \cup {None}]
          /\ call.op = "preopen" /\ call.rate \in Rates
      BY DEF DeviceTyped, ClockType
    <2> HIDE DEF call
    <2>3. DeviceTyped'
      BY <1>0, <2>1, <2>2 DEF DeviceTyped
    <2>4. StartsBound'
      <3>1. Held' = Held
        BY <2>1, <2>2 DEF Held, NoCall
      <3> QED BY <2>1, <3>1 DEF StartsBound
    <2>5. EngineServes'
      BY <2>1, <2>2 DEF EngineServes, StreamingIsMade, HeldStart, HeldPreopen, RateToTell,
                        RateAgrees, RunningMeansStreaming, NoCall
    <2> QED BY <2>3, <2>4, <2>5
  <1>3. CASE PreopenReturns
    <2>1. /\ holder.op = "preopen" /\ holder' = NoCall
          /\ UNCHANGED <<build, clients, running, clock, pending, config, threads, refused, spent>>
          /\ \E o \in USBEnsureOpen(holder.rate) : engine' = o.engine
      BY <1>3 DEF PreopenReturns
    <2>2. holder.rate \in Rates /\ running = 0
      BY <2>1 DEF DeviceTyped, EngineServes, HeldPreopen
    <2>3. engine' \in EngineType /\ engine'.made
      BY <2>1, <2>2, UsbIdleOutcome DEF DeviceTyped, EngineServes, StreamingIsMade
    <2>4. NoCall \in [op : {"none", "start", "preopen"}, client : Clients \cup {None},
                      rate : Rates \cup {None}] /\ NoCall.op = "none"
      BY DEF NoCall
    <2>5. DeviceTyped'
      BY <2>1, <2>3, <2>4 DEF DeviceTyped
    <2>6. StartsBound'
      <3>1. Held' = 0 /\ Held = 0
        BY <2>1, <2>4 DEF Held
      <3> QED BY <2>1, <3>1 DEF StartsBound
    <2>7. EngineServes'
      BY <2>1, <2>2, <2>3, <2>4
         DEF EngineServes, StreamingIsMade, HeldStart, HeldPreopen, RateToTell, RateAgrees,
             RunningMeansStreaming
    <2> QED BY <2>5, <2>6, <2>7
  <1> QED BY <1>1, <1>2, <1>3 DEF Background

\* What is asked for and what is taken up of a configuration change.
LEMMA AskDevice ==
    ASSUME DeviceInv,
           \/ \E rate \in Rates : SetNominalRate(rate)
           \/ \E size \in Sizes : SetBufferSize(size)
           \/ \E action \in {"rate", "frames"} : AbortChange(action) \/ PerformTakes(action)
    PROVE  DeviceInv'
  <1> USE DEF DeviceInv
  <1>1. UNCHANGED <<build, clients, running, clock, holder, threads, engine, refused>>
    BY DEF SetNominalRate, SetBufferSize, AbortChange, PerformTakes, Ask
  <1>2. /\ spent' \in [starts : 0 .. MaxStarts, changes : 0 .. MaxChanges]
        /\ spent'.starts = spent.starts
    <2>1. spent' = spent \/ (spent.changes < MaxChanges /\ spent' = [spent EXCEPT !.changes = @ + 1])
      BY DEF SetNominalRate, SetBufferSize, AbortChange, PerformTakes, Ask
    <2> QED BY <2>1, HalConstants DEF DeviceTyped
  <1>3. pending' \in PendingType
    <2>1. ASSUME NEW rate \in Rates, SetNominalRate(rate) PROVE pending' \in PendingType
      BY <2>1 DEF SetNominalRate, DeviceTyped, PendingType
    <2>2. ASSUME NEW size \in Sizes, SetBufferSize(size) PROVE pending' \in PendingType
      BY <2>2 DEF SetBufferSize, DeviceTyped, PendingType
    <2>3. ASSUME NEW action \in {"rate", "frames"}, pending' = Answered(action)
          PROVE  pending' \in PendingType
      BY <2>3 DEF Answered, DeviceTyped, PendingType
    <2> QED BY <2>1, <2>2, <2>3 DEF AbortChange, PerformTakes
  <1>4. \/ config' = config
        \/ /\ config = NoChange /\ holder.op # "start"
           /\ \/ config' = NoChange
              \/ config'.pc = "rate" /\ config'.value \in Rates
              \/ config'.pc = "frames" /\ config'.value \in Sizes
           /\ config' \in [pc : {"idle", "frames", "rate", "usb"}, value : Rates \cup Sizes \cup {None}]
    <2>1. ASSUME NEW action \in {"rate", "frames"}, PerformTakes(action)
          PROVE  /\ config = NoChange /\ holder.op # "start"
                 /\ \/ config' = NoChange
                    \/ config'.pc = "rate" /\ config'.value \in Rates
                    \/ config'.pc = "frames" /\ config'.value \in Sizes
                 /\ config' \in [pc : {"idle", "frames", "rate", "usb"},
                                 value : Rates \cup Sizes \cup {None}]
      <3>1. /\ config = NoChange /\ holder.op # "start"
            /\ \/ config' = NoChange
               \/ pending[action] # None /\ config' = [pc |-> action, value |-> pending[action]]
        BY <2>1 DEF PerformTakes
      <3>2. CASE action = "rate"
        BY <3>1, <3>2 DEF DeviceTyped, PendingType, NoChange
      <3>3. CASE action = "frames"
        BY <3>1, <3>3 DEF DeviceTyped, PendingType, NoChange
      <3> QED BY <3>1, <3>2, <3>3
    <2>2. ASSUME ~ \E action \in {"rate", "frames"} : PerformTakes(action) PROVE config' = config
      BY <2>2 DEF SetNominalRate, SetBufferSize, AbortChange, Ask
    <2> QED BY <2>1, <2>2
  <1>5. DeviceTyped'
    BY <1>1, <1>2, <1>3, <1>4 DEF DeviceTyped, NoChange
  <1>6. StartsBound'
    BY <1>1, <1>2 DEF StartsBound, Held
  <1>7. EngineServes'
    BY <1>1, <1>4 DEF EngineServes, StreamingIsMade, HeldStart, HeldPreopen, RateToTell, RateAgrees,
                      RunningMeansStreaming, NoChange
  <1> QED BY <1>5, <1>6, <1>7

\* The change is performed: the device's rate first, then the engine's when it is in use.
LEMMA PerformDevice ==
    ASSUME DeviceInv, PerformFrames \/ PerformRate \/ PerformUsbRate
    PROVE  DeviceInv'
  <1> USE DEF DeviceInv
  <1>0. /\ NoChange.pc = "idle" /\ NoChange.value = None
        /\ NoChange \in [pc : {"idle", "frames", "rate", "usb"}, value : Rates \cup Sizes \cup {None}]
    BY DEF NoChange
  <1>1. CASE PerformFrames
    <2>1. /\ config.pc = "frames" /\ config' = NoChange /\ clock' = AppliedFrames(config.value)
          /\ UNCHANGED <<build, clients, running, pending, holder, threads, engine, refused, spent>>
      BY <1>1 DEF PerformFrames
    <2>2. clock' \in ClockType /\ clock'.rate = clock.rate
      BY <2>1, ClockChanges, ClockRates DEF DeviceTyped
    <2>3. DeviceTyped' /\ StartsBound'
      BY <1>0, <2>1, <2>2 DEF DeviceTyped, StartsBound, Held
    <2>4. EngineServes'
      BY <1>0, <2>1, <2>2
         DEF EngineServes, StreamingIsMade, HeldStart, HeldPreopen, RateToTell, RateAgrees,
             RunningMeansStreaming
    <2> QED BY <2>3, <2>4
  <1>2. CASE PerformRate
    <2>1. /\ config.pc = "rate" /\ config' = [config EXCEPT !.pc = "usb"]
          /\ clock' = AppliedRate(config.value)
          /\ UNCHANGED <<build, clients, running, pending, holder, threads, engine, refused, spent>>
      BY <1>2 DEF PerformRate
    <2>2. clock' \in ClockType /\ clock'.rate = config.value /\ config.value \in Rates
      BY <2>1, ClockChanges, ClockRates DEF DeviceTyped
    <2>3. /\ config' \in [pc : {"idle", "frames", "rate", "usb"}, value : Rates \cup Sizes \cup {None}]
          /\ config'.pc = "usb" /\ config'.value = config.value
      BY <2>1 DEF DeviceTyped
    <2>4. holder.op # "start"
      BY <1>0, <2>1 DEF EngineServes, HeldStart
    <2>5. DeviceTyped' /\ StartsBound'
      BY <2>1, <2>2, <2>3 DEF DeviceTyped, StartsBound, Held
    <2>6. EngineServes'
      BY <2>1, <2>2, <2>3, <2>4
         DEF EngineServes, StreamingIsMade, HeldStart, HeldPreopen, RateToTell, RateAgrees,
             RunningMeansStreaming
    <2> QED BY <2>5, <2>6
  <1>3. CASE PerformUsbRate
    <2>1. /\ config.pc = "usb" /\ config' = NoChange
          /\ UNCHANGED <<build, clients, running, clock, pending, holder, threads, spent>>
      BY <1>3 DEF PerformUsbRate
    <2>2. config.value = clock.rate /\ config.value \in Rates /\ holder.op # "start"
      BY <1>0, <2>1 DEF DeviceTyped, EngineServes, RateToTell, HeldStart
    <2>3. CASE running > 0
      <3>1. PICK o \in USBSetSampleRate(config.value) :
                engine' = o.engine /\ refused' = (refused \/ ~o.ok)
        BY <1>3, <2>3 DEF PerformUsbRate, UsbIsTold
      <3>2. /\ engine' \in EngineType /\ engine'.made
            /\ engine'.streaming => engine'.rate = clock.rate
            /\ o.ok /\ engine.streaming => engine'.streaming
        BY <2>2, <3>1, UsbRateOutcome DEF DeviceTyped, EngineServes, StreamingIsMade
      <3>3. refused' \in BOOLEAN /\ (~refused' => ~refused /\ o.ok)
        BY <3>1
      <3>4. DeviceTyped' /\ StartsBound'
        BY <1>0, <2>1, <3>2, <3>3 DEF DeviceTyped, StartsBound, Held
      <3>5. EngineServes'
        BY <1>0, <2>1, <2>2, <2>3, <3>2, <3>3
           DEF EngineServes, StreamingIsMade, HeldStart, HeldPreopen, RateToTell, RateAgrees,
               RunningMeansStreaming
      <3> QED BY <3>4, <3>5
    <2>4. CASE ~(running > 0)
      <3>1. UNCHANGED <<engine, refused>>
        BY <1>3, <2>4 DEF PerformUsbRate, UsbIsTold
      <3>2. DeviceTyped' /\ StartsBound'
        BY <1>0, <2>1, <3>1 DEF DeviceTyped, StartsBound, Held
      <3>3. EngineServes'
        BY <1>0, <2>1, <2>2, <2>4, <3>1
           DEF EngineServes, StreamingIsMade, HeldStart, HeldPreopen, RateToTell, RateAgrees,
               RunningMeansStreaming
      <3> QED BY <3>2, <3>3
    <2> QED BY <2>3, <2>4
  <1> QED BY <1>1, <1>2, <1>3

\* Every step of the plug-in keeps the invariant of the device.
LEMMA NextDevice == DeviceInv /\ [Next]_vars => DeviceInv'
  <1> SUFFICES ASSUME DeviceInv, [Next]_vars PROVE DeviceInv'
    OBVIOUS
  <1>1. ASSUME NEW c \in Clients, AddDeviceClient(c) PROVE DeviceInv'
    <2>1. /\ holder = NoCall
          /\ clients' = [clients EXCEPT ![c] = [active |-> TRUE, depth |-> 0]]
          /\ UNCHANGED <<build, running, clock, pending, config, holder, threads, engine, refused, spent>>
      BY <1>1 DEF AddDeviceClient, HostMayCall, MutexFree
    <2>2. /\ clients' \in [Clients -> [active : BOOLEAN, depth : Nat]]
          /\ \A d \in Clients : clients'[d].depth \in {0, clients[d].depth}
      BY <2>1 DEF DeviceInv, DeviceTyped
    <2>3. DeviceTyped'
      BY <2>1, <2>2 DEF DeviceInv, DeviceTyped
    <2>4. StartsBound'
      <3>1. Held = 0 /\ Held' = 0
        BY <2>1 DEF Held, NoCall
      <3>2. spent.starts \in Nat
        BY DEF DeviceInv, DeviceTyped
      <3> QED BY <2>1, <2>2, <3>1, <3>2 DEF DeviceInv, StartsBound
    <2>5. EngineServes'
      BY <2>1 DEF DeviceInv, EngineServes, StreamingIsMade, HeldStart, HeldPreopen, RateToTell,
                  RateAgrees, RunningMeansStreaming
    <2> QED BY <2>3, <2>4, <2>5 DEF DeviceInv
  <1>2. CASE UNCHANGED halVars
    <2>1. DeviceTyped' /\ StartsBound'
      BY <1>2 DEF halVars, DeviceInv, DeviceTyped, StartsBound, Held
    <2>2. EngineServes'
      BY <1>2 DEF halVars, DeviceInv, EngineServes, StreamingIsMade, HeldStart, HeldPreopen,
                  RateToTell, RateAgrees, RunningMeansStreaming
    <2> QED BY <2>1, <2>2 DEF DeviceInv
  <1>3. CASE DeviceSteps
    <2>1. CASE StartStop
      BY <1>1, <2>1, StartDevice, StartedDevice DEF StartStop
    <2>2. CASE Background
      BY <2>2, BackgroundDevice
    <2>3. CASE Configure
      BY <2>3, AskDevice, PerformDevice DEF Configure
    <2> QED BY <1>3, <2>1, <2>2, <2>3 DEF DeviceSteps, Background
  <1>4. CASE StopOrRemove
    BY <1>4, LeaveDevice DEF StopOrRemove
  <1>5. CASE DelayedFlush
    BY <1>5, BackgroundDevice DEF DelayedFlush, Background
  <1>6. CASE IoSteps \/ SetStreamUsage \/ UNCHANGED vars
    <2>1. UNCHANGED halVars
      BY <1>6 DEF IoSteps, BeginWriteMix, WriteMix, EndWriteMix, SetStreamUsage, vars
    <2> QED BY <1>2, <2>1
  <1> QED BY <1>3, <1>4, <1>5, <1>6 DEF Next

(***************************************************************************)
(* The count of running clients.  RemoveDeviceClient takes what the client  *)
(* had started off the count and stops at zero; that this is never cut off  *)
(* is because a client's starts are a part of the count.  AddDeviceClient   *)
(* sets the starts to zero, which is right because a client that is not     *)
(* active has none; so one whose first StartIO still waits for the engine   *)
(* must be active, and is, since the mutex keeps RemoveDeviceClient out.    *)
(***************************************************************************)
Depths == [c \in Clients |-> clients[c].depth]
InactiveHaveNone == \A c \in Clients : ~clients[c].active => clients[c].depth = 0
RunningIsTheSum == running = SumOver(Depths, Clients)
HeldIsActive == holder.op = "start" => clients[holder.client].active
CountInv == InactiveHaveNone /\ RunningIsTheSum /\ HeldIsActive

\* The fold of the claim is the sum.
LEMMA DepthsAreSummed ==
    MapThenSumSet(LAMBDA c : clients[c].depth, Clients) = SumOver(Depths, Clients)
  <1> DEFINE F == Depths
             Step(g) == [s \in SUBSET Clients |->
                           IF s = {} THEN 0
                           ELSE clients[CHOOSE x \in s : TRUE].depth
                                  + g[s \ {CHOOSE x \in s : TRUE}]]
  <1>1. MapThenSumSet(LAMBDA c : clients[c].depth, Clients)
          = (CHOOSE g : g = Step(g))[Clients]
    BY DEF MapThenSumSet, MapThenFoldSet
  <1>2. ASSUME NEW g
        PROVE  Step(g) = TotalsFrom(g, F, Clients)
    <2>1. ASSUME NEW s \in SUBSET Clients, s # {}
          PROVE  clients[CHOOSE x \in s : TRUE].depth = F[Picked(s)]
      <3>1. Picked(s) \in s
        BY <2>1 DEF Picked
      <3>2. F[Picked(s)] = clients[Picked(s)].depth
        BY <3>1 DEF Depths
      <3> QED BY <3>2 DEF Picked
    <2> HIDE DEF F
    <2>2. \A s \in SUBSET Clients :
              (IF s = {} THEN 0 ELSE clients[CHOOSE x \in s : TRUE].depth
                                       + g[s \ {CHOOSE x \in s : TRUE}])
              = (IF s = {} THEN 0 ELSE F[Picked(s)] + g[s \ {Picked(s)}])
      BY <2>1 DEF Picked
    <2> QED BY <2>2 DEF TotalsFrom
  <1> HIDE DEF F, Step
  <1>3. (CHOOSE g : g = Step(g)) = (CHOOSE g : AreTotals(g, F, Clients))
    BY <1>2 DEF AreTotals
  <1> QED BY <1>1, <1>3 DEF SumOver, F

\* One client changes by what the count changes.
LEMMA CountFollows ==
    ASSUME DeviceTyped, DeviceTyped', CountInv, HeldIsActive', NEW c \in Clients,
           \A d \in Clients \ {c} : clients'[d] = clients[d],
           ~clients'[c].active => clients'[c].depth = 0,
           clients[c].depth <= SumOver(Depths, Clients)
              => running' = running - clients[c].depth + clients'[c].depth
    PROVE  CountInv'
  <1> DEFINE F == Depths
             G == Depths'
  <1>1. /\ \A d \in Clients : F[d] = clients[d].depth /\ F[d] \in Nat
        /\ \A d \in Clients : G[d] = clients'[d].depth /\ G[d] \in Nat
    BY DEF Depths, DeviceTyped
  <1>2. \A d \in Clients \ {c} : F[d] = G[d]
    BY <1>1
  <1> HIDE DEF F, G
  <1>3. /\ SumOver(G, Clients) = SumOver(F, Clients) - F[c] + G[c]
        /\ F[c] <= SumOver(F, Clients)
    BY <1>1, <1>2, HalConstants, SumChange
  <1>4. running' = SumOver(G, Clients)
    BY <1>1, <1>3 DEF CountInv, RunningIsTheSum, F
  <1>5. InactiveHaveNone'
    BY DEF CountInv, InactiveHaveNone
  <1> QED BY <1>4, <1>5 DEF CountInv, RunningIsTheSum, G

\* Every step that starts, stops or removes keeps the count; the others leave it alone.
LEMMA NextCount == DeviceInv /\ CountInv /\ [Next]_vars => CountInv'
  <1> SUFFICES ASSUME DeviceInv, CountInv, [Next]_vars PROVE CountInv'
    OBVIOUS
  <1>0. DeviceTyped /\ DeviceTyped'
    BY NextDevice DEF DeviceInv
  <1>1. \A c \in Clients : clients[c] \in [active : BOOLEAN, depth : Nat]
    BY <1>0 DEF DeviceTyped
  <1>2. ASSUME NEW c \in Clients, AddDeviceClient(c) PROVE CountInv'
    <2>1. /\ clients' = [clients EXCEPT ![c] = [active |-> TRUE, depth |-> 0]]
          /\ running' = running /\ clients[c].depth = 0
      BY <1>2 DEF AddDeviceClient, CountInv, InactiveHaveNone
    <2>2. /\ \A d \in Clients \ {c} : clients'[d] = clients[d]
          /\ clients'[c].depth = 0 /\ running \in Nat
      BY <1>0, <2>1 DEF DeviceTyped
    <2>3. HeldIsActive'
      BY <1>2 DEF AddDeviceClient, HostMayCall, MutexFree, NoCall, HeldIsActive
    <2> QED BY <1>0, <2>1, <2>2, <2>3, CountFollows
  <1>3. ASSUME NEW c \in Clients, StartIO(c) PROVE CountInv'
    <2>1. CASE running = 0
      <3>1. clients' = [clients EXCEPT ![c].active = TRUE] /\ running' = running
        BY <1>3, <2>1 DEF StartIO
      <3>2. /\ \A d \in Clients \ {c} : clients'[d] = clients[d]
            /\ clients'[c].depth = clients[c].depth /\ clients'[c].active
            /\ clients[c].depth \in Nat /\ running \in Nat
        BY <1>0, <1>1, <3>1 DEF DeviceTyped
      <3>3. holder' = [op |-> "start", client |-> c, rate |-> clock.rate]
        BY <1>3, <2>1 DEF StartIO
      <3> QED BY <1>0, <3>1, <3>2, <3>3, CountFollows DEF HeldIsActive
    <2>2. CASE running # 0
      <3>1. /\ clients' = [clients EXCEPT ![c] = [active |-> TRUE, depth |-> @.depth + 1]]
            /\ running' = running + 1
        BY <1>3, <2>2 DEF StartIO
      <3>2. /\ \A d \in Clients \ {c} : clients'[d] = clients[d]
            /\ clients'[c].depth = clients[c].depth + 1 /\ clients'[c].active
            /\ clients[c].depth \in Nat /\ running \in Nat
        BY <1>0, <1>1, <3>1 DEF DeviceTyped
      <3>3. holder' = NoCall
        BY <1>3, <2>2 DEF StartIO, HostMayCall, MutexFree
      <3> QED BY <1>0, <3>1, <3>2, <3>3, CountFollows DEF HeldIsActive, NoCall
    <2> QED BY <2>1, <2>2
  <1>4. ASSUME UNCHANGED <<clients, running>>, holder' = holder \/ holder'.op # "start"
        PROVE  CountInv'
    BY <1>4 DEF CountInv, InactiveHaveNone, RunningIsTheSum, Depths, HeldIsActive
  <1>5. CASE StartIOReturns
    <2>0. holder' = NoCall
      BY <1>5 DEF StartIOReturns
    <2>1. CASE UNCHANGED <<clients, running>>
      BY <1>4, <2>0, <2>1 DEF NoCall
    <2>2. CASE ~UNCHANGED <<clients, running>>
      <3> DEFINE c == holder.client
      <3>1. /\ c \in Clients
            /\ clients' = [clients EXCEPT ![c].depth = @ + 1] /\ running' = running + 1
            /\ clients[c].active
        BY <1>0, <1>5, <2>2 DEF StartIOReturns, DeviceTyped, CountInv, HeldIsActive
      <3> HIDE DEF c
      <3>2. /\ \A d \in Clients \ {c} : clients'[d] = clients[d]
            /\ clients'[c].depth = clients[c].depth + 1 /\ clients'[c].active = clients[c].active
            /\ clients[c].depth \in Nat /\ running \in Nat
        BY <1>0, <1>1, <3>1 DEF DeviceTyped
      <3>3. running' = running - clients[c].depth + clients'[c].depth
        BY <3>1, <3>2
      <3> QED BY <1>0, <2>0, <3>1, <3>2, <3>3, CountFollows DEF HeldIsActive, NoCall
    <2> QED BY <2>1, <2>2
  <1>6. ASSUME NEW c \in Clients, StopIO(c) PROVE CountInv'
    <2>1. /\ clients' = [clients EXCEPT ![c].depth = @ - 1] /\ running' = running - 1
          /\ clients[c].active
      BY <1>6 DEF StopIO
    <2>2. /\ \A d \in Clients \ {c} : clients'[d] = clients[d]
          /\ clients'[c].depth = clients[c].depth - 1 /\ clients'[c].active
          /\ clients[c].depth \in Nat /\ running \in Nat
      BY <1>0, <1>1, <2>1 DEF DeviceTyped
    <2>3. HeldIsActive'
      BY <1>6 DEF StopIO, HostMayCall, MutexFree, NoCall, HeldIsActive
    <2> QED BY <1>0, <2>1, <2>2, <2>3, CountFollows
  <1>7. ASSUME NEW c \in Clients, RemoveDeviceClient(c) PROVE CountInv'
    <2>1. /\ clients' = [clients EXCEPT ![c] = Unused]
          /\ running' = IF clients[c].depth > running THEN 0 ELSE running - clients[c].depth
      BY <1>7 DEF RemoveDeviceClient
    <2>2. /\ \A d \in Clients \ {c} : clients'[d] = clients[d]
          /\ clients'[c].depth = 0
          /\ clients[c].depth \in Nat /\ running \in Nat
      BY <1>0, <1>1, <2>1 DEF DeviceTyped, Unused
    <2>3. clients[c].depth <= SumOver(Depths, Clients)
             => running' = running - clients[c].depth + clients'[c].depth
      BY <2>1, <2>2 DEF CountInv, RunningIsTheSum
    <2>4. HeldIsActive'
      BY <1>7 DEF RemoveDeviceClient, HostMayCall, MutexFree, NoCall, HeldIsActive
    <2> QED BY <1>0, <2>2, <2>3, <2>4, CountFollows
  <1>8. CASE DeviceSteps
    <2>1. CASE StartStop
      BY <1>2, <1>3, <1>5, <2>1 DEF StartStop
    <2>2. CASE (\E t \in threads.sleeping : PreopenBegins(t)) \/ PreopenReturns \/ Configure
      <3>1. UNCHANGED <<clients, running>> /\ (holder' = holder \/ holder'.op # "start")
        <4>1. ASSUME NEW t \in threads.sleeping, PreopenBegins(t)
              PROVE  UNCHANGED <<clients, running>> /\ (holder' = holder \/ holder'.op # "start")
          BY <4>1 DEF PreopenBegins
        <4>2. CASE PreopenReturns
          BY <4>2 DEF PreopenReturns, NoCall
        <4>3. CASE Configure
          <5>1. UNCHANGED <<clients, running, holder>>
            BY <4>3 DEF Configure, SetNominalRate, SetBufferSize, Ask, AbortChange, PerformTakes,
                        PerformFrames, PerformRate, PerformUsbRate
          <5> QED BY <5>1
        <4> QED BY <2>2, <4>1, <4>2, <4>3
      <3> QED BY <1>4, <3>1
    <2> QED BY <1>8, <2>1, <2>2 DEF DeviceSteps
  <1>9. CASE StopOrRemove
    BY <1>6, <1>7, <1>9 DEF StopOrRemove
  <1>10. CASE DelayedFlush
    BY <1>4, <1>10 DEF DelayedFlush, DelayedClose
  <1>11. CASE IoSteps \/ SetStreamUsage \/ UNCHANGED vars
    <2>1. UNCHANGED halVars
      BY <1>11 DEF IoSteps, BeginWriteMix, WriteMix, EndWriteMix, SetStreamUsage, vars
    <2> QED BY <1>4, <2>1 DEF halVars
  <1> QED BY <1>8, <1>9, <1>10, <1>11 DEF Next

(***************************************************************************)
(* The IO cycles.  What is buffered belongs to the cycle of the counter the *)
(* buffer carries, and to a cycle after all that were handed on; when the   *)
(* IO thread starts another cycle, or another session whose counter begins  *)
(* at 1 again, the buffer has been handed on.                               *)
(***************************************************************************)
SampleTimes == (1 .. MaxCycles) \X Streams
Mixing == io.pc = "mix"

CycleTyped ==
    /\ io \in [pc : {"idle", "mix"}, counter : Nat, cycle : 0 .. MaxCycles, todo : SUBSET Streams]
    /\ buffer \in [counter : Nat, ready : BOOLEAN, holds : SUBSET SampleTimes]
    /\ expected \subseteq Streams
    /\ written \in Seq(SUBSET SampleTimes)

BufferOfCycle ==
    /\ Touched(buffer) \/ Mixing =>
           buffer.ready /\ buffer.counter = io.counter /\ io.counter > 0
    /\ Mixing => running > 0
    /\ \A x \in buffer.holds : x[1] <= io.cycle /\ (Mixing => x[1] = io.cycle)
    /\ \A x, y \in buffer.holds : x[1] = y[1]

WrittenBefore ==
    \A i \in 1 .. Len(written) : \A x \in written[i] :
        /\ x[1] <= io.cycle /\ (Mixing => x[1] < io.cycle)
        /\ \A y \in buffer.holds : x[1] < y[1]
WrittenAlone == \A i \in 1 .. Len(written) : \A x, y \in written[i] : x[1] = y[1]
WrittenInOrder ==
    \A i, j \in 1 .. Len(written) : i < j => \A x \in written[i], y \in written[j] : x[1] < y[1]
WrittenCount == Len(written) + (IF Touched(buffer) \/ Mixing THEN 1 ELSE 0) <= io.cycle
FinishedKept ==
    \A n \in finished : \/ \E x \in buffer.holds : x[1] = n
                        \/ \E i \in 1 .. Len(written) : \E x \in written[i] : x[1] = n

CycleInv ==
    /\ CycleTyped
    /\ BufferOfCycle
    /\ WrittenBefore
    /\ WrittenAlone
    /\ WrittenInOrder
    /\ WrittenCount
    /\ FinishedKept

\* A step that leaves the buffer and the IO thread alone.
LEMMA CycleStays ==
    ASSUME CycleInv, UNCHANGED <<io, buffer, written, finished>>,
           expected' \subseteq Streams, Mixing => running' > 0
    PROVE  CycleInv'
  <1> USE DEF CycleInv
  <1>1. CycleTyped'
    BY DEF CycleTyped
  <1>2. BufferOfCycle'
    BY DEF BufferOfCycle, Touched, Mixing
  <1>3. WrittenBefore' /\ WrittenAlone' /\ WrittenInOrder' /\ WrittenCount' /\ FinishedKept'
    BY DEF WrittenBefore, WrittenAlone, WrittenInOrder, WrittenCount, FinishedKept, Touched, Mixing
  <1> QED BY <1>1, <1>2, <1>3

\* What is handed on: all that is buffered, after all that was handed on before.
LEMMA FlushedParts ==
    ASSUME CycleInv
    PROVE  /\ Flushed(buffer).buffer \in [counter : Nat, ready : BOOLEAN, holds : SUBSET SampleTimes]
           /\ Flushed(buffer).buffer.holds = {}
           /\ \/ buffer.holds = {} /\ Flushed(buffer).written = written
              \/ buffer.holds # {} /\ Flushed(buffer).written = Append(written, buffer.holds)
  <1>1. CASE Touched(buffer)
    <2>1. Flushed(buffer) = [buffer |-> EmptyBuffer, written |-> Append(written, buffer.holds)]
      BY <1>1 DEF Flushed, CycleInv, BufferOfCycle
    <2>2. EmptyBuffer \in [counter : Nat, ready : BOOLEAN, holds : SUBSET SampleTimes]
          /\ EmptyBuffer.holds = {}
      BY DEF EmptyBuffer
    <2> QED BY <1>1, <2>1, <2>2 DEF Touched
  <1>2. CASE ~Touched(buffer)
    <2>1. Flushed(buffer) = [buffer |-> buffer, written |-> written]
      BY <1>2 DEF Flushed
    <2> QED BY <1>2, <2>1 DEF Touched, CycleInv, CycleTyped
  <1> QED BY <1>1, <1>2

\* A step that hands the buffer on; afterwards nothing is buffered.
LEMMA Handed ==
    ASSUME CycleInv, written' = Flushed(buffer).written, buffer'.holds = {},
           buffer' \in [counter : Nat, ready : BOOLEAN, holds : SUBSET SampleTimes],
           io'.cycle \in Nat, io'.cycle = io.cycle \/ io'.cycle = io.cycle + 1,
           io'.pc = "mix" => io'.cycle = io.cycle + 1,
           finished' \subseteq finished \cup
               {n \in Nat : \E s \in Streams : \E w \in Range(written) \cup {buffer.holds} :
                                <<n, s>> \in w}
    PROVE  /\ written' \in Seq(SUBSET SampleTimes)
           /\ WrittenBefore' /\ WrittenAlone' /\ WrittenInOrder' /\ WrittenCount' /\ FinishedKept'
  <1> USE DEF CycleInv
  <1>0. /\ written \in Seq(SUBSET SampleTimes) /\ buffer.holds \in SUBSET SampleTimes
        /\ io.cycle \in Nat /\ Len(written) \in Nat
        /\ \A i \in 1 .. Len(written) : written[i] \subseteq SampleTimes
    BY CycleConstants DEF CycleTyped
  <1>1. CASE buffer.holds = {}
    <2>1. written' = written
      BY <1>1, FlushedParts
    <2>2. WrittenBefore'
      BY <1>0, <2>1 DEF WrittenBefore, Mixing, SampleTimes
    <2>3. WrittenAlone' /\ WrittenInOrder'
      BY <2>1 DEF WrittenAlone, WrittenInOrder
    <2>4. WrittenCount'
      BY <1>0, <1>1, <2>1 DEF WrittenCount, Touched, Mixing
    <2>5. FinishedKept'
      <3> SUFFICES ASSUME NEW n \in finished'
                   PROVE  \E i \in 1 .. Len(written) : \E x \in written[i] : x[1] = n
        BY <2>1 DEF FinishedKept
      <3>1. CASE n \in finished
        BY <1>1, <3>1 DEF FinishedKept
      <3>2. CASE n \notin finished
        <4>1. PICK s \in Streams, w \in Range(written) \cup {buffer.holds} : <<n, s>> \in w
          BY <3>2
        <4>2. PICK i \in 1 .. Len(written) : w = written[i]
          BY <1>0, <1>1, <4>1 DEF Range
        <4> QED BY <4>1, <4>2
      <3> QED BY <3>1, <3>2
    <2> QED BY <1>0, <2>1, <2>2, <2>3, <2>4, <2>5
  <1>2. CASE buffer.holds # {}
    <2> DEFINE n == Len(written)
    <2>1. written' = Append(written, buffer.holds)
      BY <1>2, FlushedParts
    <2>2. /\ written' \in Seq(SUBSET SampleTimes) /\ Len(written') = n + 1
          /\ \A i \in 1 .. n : written'[i] = written[i]
          /\ written'[n + 1] = buffer.holds
      BY <1>0, <2>1, AppendProperties
    <2>3. \A i \in 1 .. n + 1 : \/ i \in 1 .. n /\ written'[i] = written[i]
                                \/ i = n + 1 /\ written'[i] = buffer.holds
      BY <1>0, <2>2
    <2>4. \A x \in buffer.holds : x[1] \in Nat /\ x[1] <= io.cycle
      BY <1>0 DEF BufferOfCycle, SampleTimes
    <2>5. \A i \in 1 .. n : \A x \in written[i] : x[1] \in Nat /\ x[1] <= io.cycle
      BY <1>0 DEF WrittenBefore, SampleTimes
    <2>6. WrittenBefore'
      <3> SUFFICES ASSUME NEW i \in 1 .. n + 1, NEW x \in written'[i]
                   PROVE  x[1] <= io'.cycle /\ (io'.pc = "mix" => x[1] < io'.cycle)
        BY <2>2 DEF WrittenBefore, Mixing
      <3>1. x[1] \in Nat /\ x[1] <= io.cycle
        BY <2>3, <2>4, <2>5
      <3> QED BY <1>0, <3>1
    <2>7. WrittenAlone'
      BY <2>2, <2>3 DEF WrittenAlone, BufferOfCycle
    <2>8. WrittenInOrder'
      <3> SUFFICES ASSUME NEW i \in 1 .. n + 1, NEW j \in 1 .. n + 1, i < j,
                          NEW x \in written'[i], NEW y \in written'[j]
                   PROVE  x[1] < y[1]
        BY <2>2 DEF WrittenInOrder
      <3>1. i \in 1 .. n /\ x \in written[i]
        BY <1>0, <2>3
      <3>2. CASE j \in 1 .. n
        BY <2>2, <3>1, <3>2 DEF WrittenInOrder
      <3>3. CASE j = n + 1
        BY <2>2, <3>1, <3>3 DEF WrittenBefore
      <3> QED BY <3>2, <3>3, <2>3
    <2>9. WrittenCount'
      BY <1>0, <1>2, <2>2 DEF WrittenCount, Touched, Mixing
    <2>10. FinishedKept'
      <3> SUFFICES ASSUME NEW m \in finished'
                   PROVE  \E i \in 1 .. n + 1 : \E x \in written'[i] : x[1] = m
        BY <2>2 DEF FinishedKept
      <3>1. ASSUME NEW x \in buffer.holds, x[1] = m
            PROVE  \E i \in 1 .. n + 1 : \E z \in written'[i] : z[1] = m
        BY <1>0, <2>2, <3>1
      <3>2. ASSUME NEW k \in 1 .. n, NEW x \in written[k], x[1] = m
            PROVE  \E i \in 1 .. n + 1 : \E z \in written'[i] : z[1] = m
        BY <1>0, <2>2, <3>2
      <3>3. CASE m \in finished
        BY <3>1, <3>2, <3>3 DEF FinishedKept
      <3>4. CASE m \notin finished
        <4>1. PICK s \in Streams, w \in Range(written) \cup {buffer.holds} : <<m, s>> \in w
          BY <3>4
        <4>2. w = buffer.holds \/ \E i \in 1 .. n : w = written[i]
          BY <1>0, <4>1 DEF Range
        <4> QED BY <3>1, <3>2, <4>1, <4>2
      <3> QED BY <3>3, <3>4
    <2> QED BY <2>2, <2>6, <2>7, <2>8, <2>9, <2>10
  <1> QED BY <1>1, <1>2

\* A step that hands the buffer on between two cycles.
LEMMA HandedIdle ==
    ASSUME CycleInv, Apply(Flushed(buffer)), io' \in [pc : {"idle"}, counter : Nat,
                                                      cycle : {io.cycle}, todo : SUBSET Streams],
           expected' \subseteq Streams,
           finished' \subseteq finished \cup
               {n \in Nat : \E s \in Streams : \E w \in Range(written) \cup {buffer.holds} :
                                <<n, s>> \in w}
    PROVE  CycleInv'
  <1>0. io.cycle \in 0 .. MaxCycles /\ MaxCycles \in Nat
    BY CycleConstants DEF CycleInv, CycleTyped
  <1>1. /\ written' = Flushed(buffer).written /\ buffer'.holds = {}
        /\ buffer' \in [counter : Nat, ready : BOOLEAN, holds : SUBSET SampleTimes]
    BY FlushedParts DEF Apply
  <1>2. io'.cycle = io.cycle /\ io'.pc = "idle"
    OBVIOUS
  <1>3. /\ written' \in Seq(SUBSET SampleTimes)
        /\ WrittenBefore' /\ WrittenAlone' /\ WrittenInOrder' /\ WrittenCount' /\ FinishedKept'
    BY <1>0, <1>1, <1>2, Handed
  <1>4. CycleTyped'
    BY <1>0, <1>1, <1>3 DEF CycleTyped
  <1>5. BufferOfCycle'
    BY <1>1, <1>2 DEF BufferOfCycle, Touched, Mixing
  <1> QED BY <1>3, <1>4, <1>5 DEF CycleInv

\* The buffer of the next cycle is empty and carries its counter; the last one is handed on.
LEMMA NewCycle ==
    ASSUME CycleInv, NEW next \in Nat, next = io.counter + 1
    PROVE  /\ Ensured(buffer, next).written = Flushed(buffer).written
           /\ Ensured(buffer, next).buffer \in [counter : {next}, ready : {TRUE}, holds : {{}}]
  <1> DEFINE new == [counter |-> next, ready |-> TRUE, holds |-> {}]
  <1>0. buffer \in [counter : Nat, ready : BOOLEAN, holds : SUBSET SampleTimes] /\ io.counter \in Nat
    BY DEF CycleInv, CycleTyped
  <1>n. new \in [counter : {next}, ready : {TRUE}, holds : {{}}]
    OBVIOUS
  <1>1. CASE Touched(buffer)
    <2>1. buffer.counter # 0 /\ buffer.counter # next /\ buffer.ready
      BY <1>0, <1>1 DEF CycleInv, BufferOfCycle
    <2>2. Flushed(buffer) = [buffer |-> EmptyBuffer, written |-> Append(written, buffer.holds)]
      BY <1>1, <2>1 DEF Flushed
    <2>3. Ensured(buffer, next) = [Flushed(buffer) EXCEPT !.buffer = new]
      BY <1>1, <2>1, <2>2 DEF Ensured, EmptyBuffer
    <2>4. /\ Ensured(buffer, next).buffer = new
          /\ Ensured(buffer, next).written = Flushed(buffer).written
      BY <2>2, <2>3
    <2> QED BY <1>n, <2>4
  <1>2. CASE ~Touched(buffer)
    <2>1. Flushed(buffer) = [buffer |-> buffer, written |-> written]
      BY <1>2 DEF Flushed
    <2>2. CASE buffer.ready /\ buffer.counter = next
      <3>1. Ensured(buffer, next) = [buffer |-> buffer, written |-> written]
        BY <1>2, <2>2 DEF Ensured
      <3>2. /\ Ensured(buffer, next).buffer = buffer
            /\ Ensured(buffer, next).written = Flushed(buffer).written
        BY <2>1, <3>1
      <3>3. buffer.holds = {} /\ buffer.ready = TRUE /\ buffer.counter = next
        BY <1>0, <1>2, <2>2 DEF Touched
      <3>4. buffer \in [counter : {next}, ready : {TRUE}, holds : {{}}]
        BY <1>0, <3>3
      <3> QED BY <3>2, <3>4
    <2>3. CASE ~(buffer.ready /\ buffer.counter = next)
      <3>1. Ensured(buffer, next) = [buffer |-> new, written |-> written]
        BY <1>2, <2>3 DEF Ensured
      <3> HIDE DEF new
      <3>2. /\ Ensured(buffer, next).buffer = new
            /\ Ensured(buffer, next).written = Flushed(buffer).written
        BY <2>1, <3>1
      <3> QED BY <1>n, <3>2
    <2> QED BY <2>2, <2>3
  <1> QED BY <1>1, <1>2

\* The next cycle begins.
LEMMA BeginCycle == ASSUME CycleInv, BeginWriteMix PROVE CycleInv'
  <1>0. /\ io.counter \in Nat /\ io.cycle \in 0 .. MaxCycles /\ MaxCycles \in Nat
    BY CycleConstants DEF CycleInv, CycleTyped
  <1>1. /\ running > 0 /\ io.cycle < MaxCycles
        /\ Apply(Ensured(buffer, io.counter + 1))
        /\ \E used \in SUBSET Streams :
               io' = [pc |-> "mix", counter |-> io.counter + 1, cycle |-> io.cycle + 1, todo |-> used]
        /\ UNCHANGED <<running, expected, finished>>
    BY DEF BeginWriteMix, halVars
  <1>2. /\ io' \in [pc : {"idle", "mix"}, counter : Nat, cycle : 0 .. MaxCycles, todo : SUBSET Streams]
        /\ io'.pc = "mix" /\ io'.counter = io.counter + 1 /\ io'.cycle = io.cycle + 1
    BY <1>0, <1>1
  <1>3. /\ written' = Flushed(buffer).written
        /\ buffer' \in [counter : {io.counter + 1}, ready : {TRUE}, holds : {{}}]
    <2>1. io.counter + 1 \in Nat
      BY <1>0
    <2> QED BY <1>1, <2>1, NewCycle DEF Apply
  <1>4. /\ buffer'.holds = {} /\ buffer'.ready /\ buffer'.counter = io'.counter
        /\ buffer' \in [counter : Nat, ready : BOOLEAN, holds : SUBSET SampleTimes]
    BY <1>0, <1>2, <1>3
  <1>5. /\ written' \in Seq(SUBSET SampleTimes)
        /\ WrittenBefore' /\ WrittenAlone' /\ WrittenInOrder' /\ WrittenCount' /\ FinishedKept'
    BY <1>0, <1>1, <1>2, <1>3, <1>4, Handed
  <1>6. CycleTyped'
    BY <1>1, <1>2, <1>4, <1>5 DEF CycleTyped, CycleInv
  <1>7. BufferOfCycle'
    BY <1>0, <1>1, <1>2, <1>4 DEF BufferOfCycle, Touched, Mixing
  <1> QED BY <1>5, <1>6, <1>7 DEF CycleInv

\* A stream is written into the buffer of its own cycle.
LEMMA WriteStream == ASSUME CycleInv, NEW s \in Streams, WriteMix(s) PROVE CycleInv'
  <1> DEFINE sample == <<io.cycle, s>>
  <1>0. /\ io \in [pc : {"idle", "mix"}, counter : Nat, cycle : 0 .. MaxCycles, todo : SUBSET Streams]
        /\ buffer \in [counter : Nat, ready : BOOLEAN, holds : SUBSET SampleTimes]
        /\ MaxCycles \in Nat
    BY CycleConstants DEF CycleInv, CycleTyped
  <1>1. /\ Mixing /\ buffer.ready /\ buffer.counter = io.counter /\ running > 0
        /\ io' = [io EXCEPT !.todo = @ \ {s}]
        /\ UNCHANGED <<running, expected, finished>>
    BY DEF WriteMix, halVars, CycleInv, BufferOfCycle, Mixing
  <1>2. Ensured(buffer, io.counter) = [buffer |-> buffer, written |-> written]
    BY <1>1 DEF Ensured
  <1>3. /\ buffer' = [buffer EXCEPT !.holds = @ \cup {sample}]
        /\ written' = written
    BY <1>2 DEF WriteMix, Apply
  <1>4. io.cycle \in 1 .. MaxCycles
    <2>1. Len(written) + 1 <= io.cycle /\ Len(written) \in Nat
      BY <1>1 DEF CycleInv, WrittenCount, CycleTyped
    <2> QED BY <1>0, <2>1
  <1>5. sample \in SampleTimes /\ sample[1] = io.cycle
    BY <1>4 DEF SampleTimes
  <1> HIDE DEF sample
  <1>6. /\ buffer' \in [counter : Nat, ready : BOOLEAN, holds : SUBSET SampleTimes]
        /\ buffer'.holds = buffer.holds \cup {sample}
        /\ buffer'.ready = buffer.ready /\ buffer'.counter = buffer.counter
    BY <1>0, <1>3, <1>5
  <1>7. /\ io' \in [pc : {"idle", "mix"}, counter : Nat, cycle : 0 .. MaxCycles, todo : SUBSET Streams]
        /\ io'.pc = io.pc /\ io'.counter = io.counter /\ io'.cycle = io.cycle
    BY <1>0, <1>1
  <1>8. CycleTyped'
    BY <1>1, <1>3, <1>6, <1>7 DEF CycleTyped, CycleInv
  <1>9. \A x \in buffer'.holds : x[1] = io.cycle
    BY <1>1, <1>5, <1>6 DEF CycleInv, BufferOfCycle
  <1>10. BufferOfCycle'
    BY <1>0, <1>1, <1>6, <1>7, <1>9 DEF BufferOfCycle, CycleInv, Touched, Mixing
  <1>11. WrittenBefore'
    BY <1>1, <1>3, <1>7, <1>9 DEF WrittenBefore, CycleInv, Mixing
  <1>12. WrittenAlone' /\ WrittenInOrder'
    BY <1>3 DEF WrittenAlone, WrittenInOrder, CycleInv
  <1>13. WrittenCount'
    BY <1>1, <1>3, <1>7 DEF WrittenCount, CycleInv, Mixing
  <1>14. FinishedKept'
    BY <1>1, <1>3, <1>6 DEF FinishedKept, CycleInv
  <1> QED BY <1>8, <1>10, <1>11, <1>12, <1>13, <1>14 DEF CycleInv

\* The cycle ends; it is handed on, or stays buffered for the next one.
LEMMA EndCycle == ASSUME CycleInv, EndWriteMix PROVE CycleInv'
  <1>0. /\ io \in [pc : {"idle", "mix"}, counter : Nat, cycle : 0 .. MaxCycles, todo : SUBSET Streams]
        /\ written \in Seq(SUBSET SampleTimes)
        /\ MaxCycles \in Nat
    BY CycleConstants DEF CycleInv, CycleTyped
  <1>1. /\ Mixing /\ io' = [io EXCEPT !.pc = "idle"]
        /\ \/ Apply(Flushed(buffer))
           \/ buffer' = buffer /\ written' = written
        /\ expected' = expected
    BY DEF EndWriteMix, halVars, Mixing, Apply
  <1>2. /\ io' \in [pc : {"idle"}, counter : Nat, cycle : {io.cycle}, todo : SUBSET Streams]
        /\ io'.counter = io.counter /\ io'.cycle = io.cycle /\ io'.pc = "idle"
    BY <1>0, <1>1
  <1>3. finished' \subseteq finished \cup
               {n \in Nat : \E s \in Streams : \E w \in Range(written) \cup {buffer.holds} :
                                <<n, s>> \in w}
    BY <1>0 DEF EndWriteMix
  <1>4. CASE Apply(Flushed(buffer))
    BY <1>1, <1>2, <1>3, <1>4, HandedIdle DEF CycleInv, CycleTyped
  <1>5. CASE buffer' = buffer /\ written' = written
    <2>1. CycleTyped'
      BY <1>0, <1>1, <1>2, <1>5 DEF CycleInv, CycleTyped
    <2>2. BufferOfCycle'
      BY <1>1, <1>2, <1>5 DEF CycleInv, BufferOfCycle, Touched, Mixing
    <2>3. WrittenBefore' /\ WrittenAlone' /\ WrittenInOrder'
      BY <1>2, <1>5 DEF CycleInv, WrittenBefore, WrittenAlone, WrittenInOrder, Mixing
    <2>4. WrittenCount'
      BY <1>0, <1>1, <1>2, <1>5 DEF CycleInv, WrittenCount, Touched, Mixing
    <2>5. FinishedKept'
      <3> SUFFICES ASSUME NEW n \in finished'
                   PROVE  \/ \E x \in buffer.holds : x[1] = n
                          \/ \E i \in 1 .. Len(written) : \E x \in written[i] : x[1] = n
        BY <1>5 DEF FinishedKept
      <3>1. CASE n \in finished
        BY <3>1 DEF CycleInv, FinishedKept
      <3>2. CASE n \notin finished
        <4>1. PICK s \in Streams, w \in Range(written) \cup {buffer.holds} : <<n, s>> \in w
          BY <1>3, <3>2
        <4>2. w = buffer.holds \/ \E i \in 1 .. Len(written) : w = written[i]
          BY <1>0, <4>1 DEF Range
        <4> QED BY <4>1, <4>2
      <3> QED BY <3>1, <3>2
    <2> QED BY <2>1, <2>2, <2>3, <2>4, <2>5 DEF CycleInv
  <1> QED BY <1>1, <1>4, <1>5

\* A client that leaves takes the buffer with it when it is the last; its IO thread is idle.
LEMMA StopCycle ==
    ASSUME CycleInv, running \in Nat, running' \in Nat, HostStoppedIo, StopSession,
           UNCHANGED <<expected, finished>>
    PROVE  CycleInv'
  <1>1. CASE running' = 0
    <2>1. /\ io.pc = "idle" /\ io' = [io EXCEPT !.counter = 0] /\ Apply(Flushed(buffer))
      BY <1>1 DEF HostStoppedIo, StopSession
    <2>2. io' \in [pc : {"idle"}, counter : Nat, cycle : {io.cycle}, todo : SUBSET Streams]
      BY <2>1 DEF CycleInv, CycleTyped
    <2> QED BY <2>1, <2>2, HandedIdle DEF CycleInv, CycleTyped
  <1>2. CASE running' # 0
    <2>1. UNCHANGED <<buffer, written, io>>
      BY <1>2 DEF StopSession
    <2> QED BY <1>2, <2>1, CycleStays DEF CycleInv, CycleTyped
  <1> QED BY <1>1, <1>2

\* Every step of the plug-in keeps the cycles.
LEMMA NextCycle == DeviceInv /\ CycleInv /\ [Next]_vars => CycleInv'
  <1> SUFFICES ASSUME DeviceInv, CycleInv, [Next]_vars PROVE CycleInv'
    OBVIOUS
  <1>0. /\ running \in Nat /\ running' \in Nat /\ expected \subseteq Streams
        /\ Mixing => running > 0
    BY NextDevice DEF DeviceInv, DeviceTyped, CycleInv, CycleTyped, BufferOfCycle
  <1>1. CASE DeviceSteps
    <2>1. UNCHANGED <<io, buffer, written, finished, expected>>
      BY <1>1 DEF DeviceSteps, cycleVars
    <2>2. running' = running \/ running' = running + 1
      BY <1>1 DEF DeviceSteps, StartStop, AddDeviceClient, StartIO, StartIOReturns, PreopenBegins,
                  PreopenReturns, Configure, SetNominalRate, SetBufferSize, Ask, AbortChange,
                  PerformTakes, PerformFrames, PerformRate, PerformUsbRate
    <2> QED BY <1>0, <2>1, <2>2, CycleStays
  <1>2. CASE StopOrRemove
    <2>0. UNCHANGED <<expected, finished>>
      BY <1>2 DEF StopOrRemove
    <2>1. ASSUME NEW c \in Clients, RemoveDeviceClient(c), ~(clients[c].depth > 0),
                 UNCHANGED <<buffer, written, io>>
          PROVE  CycleInv'
      <3>1. clients[c].depth \in Nat
        BY DEF DeviceInv, DeviceTyped
      <3>2. running' = running
        BY <1>0, <2>1, <3>1 DEF RemoveDeviceClient
      <3> QED BY <1>0, <2>0, <2>1, <3>2, CycleStays
    <2>2. ASSUME HostStoppedIo, StopSession PROVE CycleInv'
      BY <1>0, <2>0, <2>2, StopCycle
    <2> QED BY <1>2, <2>1, <2>2 DEF StopOrRemove
  <1>3. CASE DelayedFlush
    <2>1. PICK t \in threads.sleeping :
              /\ DelayedClose(t)
              /\ IF StillWanted(t) THEN Apply(Flushed(buffer)) ELSE UNCHANGED <<buffer, written>>
      BY <1>3 DEF DelayedFlush
    <2>2. running' = running /\ UNCHANGED <<io, expected, finished>>
      BY <1>3, <2>1 DEF DelayedFlush, DelayedClose
    <2>3. CASE StillWanted(t)
      <3>1. io.pc = "idle"
        BY <1>0, <2>3 DEF StillWanted, Mixing, CycleInv, CycleTyped
      <3>2. io' \in [pc : {"idle"}, counter : Nat, cycle : {io.cycle}, todo : SUBSET Streams]
        BY <2>2, <3>1 DEF CycleInv, CycleTyped
      <3> QED BY <1>0, <2>1, <2>2, <2>3, <3>2, HandedIdle
    <2>4. CASE ~StillWanted(t)
      BY <1>0, <2>1, <2>2, <2>4, CycleStays
    <2> QED BY <2>3, <2>4
  <1>4. CASE IoSteps
    BY <1>4, BeginCycle, WriteStream, EndCycle DEF IoSteps
  <1>5. CASE SetStreamUsage \/ UNCHANGED vars
    <2>1. /\ UNCHANGED <<io, buffer, written, finished, running>>
          /\ expected' \subseteq Streams
      BY <1>0, <1>5 DEF SetStreamUsage, vars, halVars, cycleVars
    <2> QED BY <1>0, <2>1, CycleStays
  <1> QED BY <1>1, <1>2, <1>3, <1>4, <1>5 DEF Next

(***************************************************************************)
(* The theorems.                                                            *)
(***************************************************************************)
\* At the start nobody runs and nothing is buffered.
LEMMA InitCycle == Init => DeviceInv /\ CycleInv
  <1> SUFFICES ASSUME Init PROVE DeviceInv /\ CycleInv
    OBVIOUS
  <1>1. /\ build \in Builds
        /\ clients = [c \in Clients |-> Unused] /\ running = 0
        /\ clock = [rate |-> FirstRate, frames |-> PreferredSize, seed |-> 1, anchor |-> 1,
                    going |-> FALSE]
        /\ pending = [rate |-> None, frames |-> None, asked |-> {}]
        /\ config = NoChange /\ holder = NoCall /\ engine = NoEngine /\ refused = FALSE
        /\ spent = [starts |-> 0, changes |-> 0]
    BY DEF Init, HalInit
  <1>2. threads \in ThreadsType
    BY DEF Init, HalInit, ThreadsType
  <1>3. engine \in EngineType /\ ~engine.streaming
    BY <1>1, NewEngineType, HalConstants
  <1>4. DeviceTyped
    <2>1. /\ clients \in [Clients -> [active : BOOLEAN, depth : Nat]]
          /\ clock \in ClockType /\ pending \in PendingType
      BY <1>1, HalConstants DEF Unused, ClockType, PendingType
    <2>2. /\ config \in [pc : {"idle", "frames", "rate", "usb"}, value : Rates \cup Sizes \cup {None}]
          /\ config.pc = "idle"
      BY <1>1 DEF NoChange
    <2>3. /\ holder \in [op : {"none", "start", "preopen"}, client : Clients \cup {None},
                         rate : Rates \cup {None}]
          /\ holder.op = "none"
      BY <1>1 DEF NoCall
    <2>4. spent \in [starts : 0 .. MaxStarts, changes : 0 .. MaxChanges]
      BY <1>1, HalConstants
    <2> QED BY <1>1, <1>2, <1>3, <2>1, <2>2, <2>3, <2>4 DEF DeviceTyped
  <1>5. StartsBound
    BY <1>1 DEF StartsBound, Held, NoCall, Unused
  <1>6. EngineServes
    BY <1>1, <1>3 DEF EngineServes, StreamingIsMade, HeldStart, HeldPreopen, RateToTell, RateAgrees,
                      RunningMeansStreaming, NoCall, NoChange
  <1>7. CycleInv
    <2>1. /\ io = NoCycle /\ buffer = EmptyBuffer /\ expected = Streams /\ written = <<>>
          /\ finished = {}
      BY DEF Init
    <2>2. CycleTyped
      BY <2>1, CycleConstants DEF CycleTyped, NoCycle, EmptyBuffer
    <2>3. BufferOfCycle /\ WrittenCount
      BY <2>1 DEF BufferOfCycle, WrittenCount, Touched, Mixing, NoCycle, EmptyBuffer
    <2>4. WrittenBefore /\ WrittenAlone /\ WrittenInOrder /\ FinishedKept
      BY <2>1 DEF WrittenBefore, WrittenAlone, WrittenInOrder, FinishedKept
    <2> QED BY <2>2, <2>3, <2>4 DEF CycleInv
  <1> QED BY <1>4, <1>5, <1>6, <1>7 DEF DeviceInv

\* The two invariants together.
THEOREM PluginInvariant == Spec => [](DeviceInv /\ CycleInv)
  <1>1. Init => DeviceInv /\ CycleInv
    BY InitCycle
  <1>2. (DeviceInv /\ CycleInv) /\ [Next]_vars => (DeviceInv /\ CycleInv)'
    BY NextDevice, NextCycle
  <1> QED BY <1>1, <1>2, PTL DEF Spec

\* What each client has started and not stopped adds up to the count of running clients.
THEOREM StartsAddUp == Spec => []CountInv
  <1>1. Init => CountInv
    <2> SUFFICES ASSUME Init PROVE CountInv
      OBVIOUS
    <2>1. running = 0 /\ holder = NoCall /\ \A c \in Clients : clients[c] = Unused
      BY DEF Init, HalInit
    <2>2. \A c \in Clients : Depths[c] = 0
      BY <2>1 DEF Depths, Unused
    <2>3. SumOver(Depths, Clients) = 0
      BY <2>2, HalConstants, SumZero
    <2> QED BY <2>1, <2>3 DEF CountInv, InactiveHaveNone, RunningIsTheSum, HeldIsActive, NoCall, Unused
  <1>2. (DeviceInv /\ CycleInv) /\ CountInv /\ [Next]_vars => CountInv'
    BY NextCount
  <1> QED BY <1>1, <1>2, PluginInvariant, PTL DEF Spec

\* The types, with the bounds on the starts and the buffers.
THEOREM PluginTypes == Spec => []TypeOK
  <1>1. DeviceInv /\ CycleInv => TypeOK
    <2> SUFFICES ASSUME DeviceInv, CycleInv PROVE TypeOK
      OBVIOUS
    <2>1. running \in 0 .. MaxStarts
          /\ \A c \in Clients : clients[c].depth \in 0 .. MaxStarts
      BY HalConstants DEF DeviceInv, DeviceTyped, StartsBound, Held
    <2>2. clients \in [Clients -> [active : BOOLEAN, depth : 0 .. MaxStarts]]
      <3>1. \A c \in Clients : clients[c] \in [active : BOOLEAN, depth : 0 .. MaxStarts]
        BY <2>1 DEF DeviceInv, DeviceTyped
      <3> QED BY <3>1 DEF DeviceInv, DeviceTyped
    <2>3. HalTypeOK
      BY <2>1, <2>2 DEF HalTypeOK, DeviceInv, DeviceTyped, ClockType, PendingType, EngineType
    <2>4. Len(written) <= MaxCycles
      BY CycleConstants DEF CycleInv, CycleTyped, WrittenCount
    <2> QED BY <2>3, <2>4 DEF TypeOK, CycleInv, CycleTyped, SampleTimes
  <1> QED BY <1>1, PluginInvariant, PTL

\* The running clients are what the clients have started and not stopped; and as long as
\* one runs, the engine streams unless it refused a change of rate itself, whatever thread
\* of an earlier stop wakes up.
THEOREM ClientsServed == Spec => []StreamsForItsClients
  <1>1. TypeOK /\ (DeviceInv /\ CycleInv) /\ CountInv => StreamsForItsClients
    BY DepthsAreSummed
    DEF StreamsForItsClients, DeviceInv, EngineServes, RunningMeansStreaming, CountInv,
        RunningIsTheSum
  <1> QED BY <1>1, PluginTypes, PluginInvariant, StartsAddUp, PTL

\* The engine never streams for a client at another rate than the device's.
THEOREM RatesAgree == Spec => []RateAgrees
  <1>1. DeviceInv => RateAgrees
    BY DEF DeviceInv, EngineServes
  <1> QED BY <1>1, PluginInvariant, PTL

\* No change of the rate, the buffer size or the anchor keeps the seed, and a seed never
\* comes back.
THEOREM SeedsNameTimelines == Spec => SeedNamesTimeline
  <1>1. DeviceInv /\ [Next]_vars =>
            [/\ clock'.seed >= clock.seed
             /\ <<clock'.rate, clock'.frames, clock'.anchor>>
                    # <<clock.rate, clock.frames, clock.anchor>> => clock'.seed > clock.seed]_vars
    <2> SUFFICES ASSUME DeviceInv, Next
                 PROVE  /\ clock'.seed >= clock.seed
                        /\ <<clock'.rate, clock'.frames, clock'.anchor>>
                               # <<clock.rate, clock.frames, clock.anchor>>
                           => clock'.seed > clock.seed
      OBVIOUS
    <2>1. /\ clock \in ClockType
          /\ config.pc = "rate" => config.value \in Rates
          /\ config.pc = "frames" => config.value \in Sizes
      BY DEF DeviceInv, DeviceTyped
    <2>2. CASE DeviceSteps
      <3>1. CASE PerformRate
        BY <2>1, <3>1, ClockChanges DEF PerformRate
      <3>2. CASE PerformFrames
        BY <2>1, <3>2, ClockChanges DEF PerformFrames
      <3>3. CASE ~PerformRate /\ ~PerformFrames
        <4>1. clock' \in {clock, StartedClock, StoppedClock}
          BY <2>2, <3>3
             DEF DeviceSteps, StartStop, AddDeviceClient, StartIO, StartIOReturns, PreopenBegins,
                 PreopenReturns, Configure, SetNominalRate, SetBufferSize, Ask, AbortChange,
                 PerformTakes, PerformUsbRate
        <4> QED BY <2>1, <4>1, ClockChanges
      <3> QED BY <3>1, <3>2, <3>3
    <2>3. CASE StopOrRemove
      <3>1. clock' \in {clock, StoppedClock}
        BY <2>3 DEF StopOrRemove, StopIO, RemoveDeviceClient, StopIfLast, StopAfterLastClient,
                    StopAfterLastClientThreadless, StillServed
      <3> QED BY <2>1, <3>1, ClockChanges
    <2>4. CASE DelayedFlush \/ IoSteps \/ SetStreamUsage
      <3>1. clock' = clock
        BY <2>4 DEF DelayedFlush, DelayedClose, IoSteps, BeginWriteMix, WriteMix, EndWriteMix,
                    SetStreamUsage, halVars
      <3> QED BY <2>1, <3>1, ClockChanges
    <2> QED BY <2>2, <2>3, <2>4 DEF Next
  <1> QED BY <1>1, PluginInvariant, PTL DEF Spec, SeedNamesTimeline

\* Each buffer handed to the engine holds samples of one cycle, the cycles are handed on in
\* order and once, and a cycle that ended is on its way or is the one still buffered.
THEOREM CyclesOnce == Spec => []CyclesWrittenOnce
  <1>1. CycleInv => CyclesWrittenOnce
    <2> SUFFICES ASSUME CycleInv PROVE CyclesWrittenOnce
      OBVIOUS
    <2> DEFINE cycleOf(w) == {sample[1] : sample \in w}
               buffers == Range(written) \cup {buffer.holds}
    <2>0. written \in Seq(SUBSET SampleTimes)
      BY DEF CycleInv, CycleTyped
    <2>1. \A w \in buffers : w = buffer.holds \/ \E i \in 1 .. Len(written) : w = written[i]
      BY <2>0 DEF Range
    <2>2. ASSUME NEW w \in buffers PROVE Cardinality(cycleOf(w)) <= 1
      <3>1. \A x, y \in w : x[1] = y[1]
        BY <2>1, <2>2 DEF CycleInv, BufferOfCycle, WrittenAlone
      <3>2. CASE w = {}
        <4>1. cycleOf(w) = {}
          BY <3>2
        <4> QED BY <4>1, FS_EmptySet
      <3>3. CASE w # {}
        <4>1. PICK x \in w : TRUE
          BY <3>3
        <4>2. cycleOf(w) = {x[1]}
          BY <3>1
        <4>3. Cardinality({x[1]}) = 1
          BY FS_Singleton
        <4>4. Cardinality(cycleOf(w)) = 1
          BY <4>2, <4>3
        <4> QED BY <4>4
      <3> QED BY <3>2, <3>3
    <2>3. ASSUME NEW i \in DOMAIN written, NEW j \in DOMAIN written, i < j,
                 NEW a \in cycleOf(written[i]), NEW b \in cycleOf(written[j])
          PROVE  a < b
      BY <2>0, <2>3 DEF CycleInv, WrittenInOrder
    <2>4. finished \subseteq UNION {cycleOf(w) : w \in buffers}
      <3> SUFFICES ASSUME NEW n \in finished PROVE \E w \in buffers : n \in cycleOf(w)
        OBVIOUS
      <3>1. CASE \E x \in buffer.holds : x[1] = n
        BY <3>1
      <3>2. CASE \E i \in 1 .. Len(written) : \E x \in written[i] : x[1] = n
        <4>1. PICK i \in 1 .. Len(written) : \E x \in written[i] : x[1] = n
          BY <3>2
        <4>2. written[i] \in buffers
          BY <2>0 DEF Range
        <4> QED BY <4>1, <4>2
      <3> QED BY <3>1, <3>2 DEF CycleInv, FinishedKept
    <2> QED BY <2>2, <2>3, <2>4 DEF CyclesWrittenOnce
  <1> QED BY <1>1, PluginInvariant, PTL

(***************************************************************************)
(* Remainders: the ring's places and the bytes of a frame.                 *)
(***************************************************************************)
\* A number is the remainder of itself plus any multiple.
LEMMA ModAddMany ==
    ASSUME NEW n \in Nat \ {0}, NEW m \in 0 .. n - 1, NEW k \in Int
    PROVE (m + k * n) % n = m
  OBVIOUS

\* A number below the divisor is its own remainder.
LEMMA ModSmall ==
    ASSUME NEW n \in Nat \ {0}, NEW m \in 0 .. n - 1
    PROVE  m % n = m
  OBVIOUS

\* A remainder is below the divisor.
LEMMA ModRange ==
    ASSUME NEW n \in Nat \ {0}, NEW m \in Int
    PROVE m % n \in 0 .. n - 1
  OBVIOUS

\* A number is its quotient times the divisor plus its remainder.
LEMMA DivMod ==
    ASSUME NEW n \in Nat \ {0}, NEW m \in Int
    PROVE m = (m % n) + (m \div n) * n /\ m \div n \in Int
  OBVIOUS

\* Once round leads back to the same place.
LEMMA ModAddOne ==
    ASSUME NEW n \in Nat \ {0}, NEW m \in Int
    PROVE (m + n) % n = m % n
  <1> DEFINE r == m % n
             q == m \div n
  <1>1. r \in 0 .. n - 1 /\ q \in Int /\ m = r + q * n
    BY ModRange, DivMod
  <1> HIDE DEF r, q
  <1>2. m + n = r + (q + 1) * n
    BY <1>1
  <1>3. (r + (q + 1) * n) % n = r
    BY <1>1, ModAddMany
  <1> QED BY <1>2, <1>3 DEF r

\* Two numbers with the same place are at least once round apart.
LEMMA ModFar ==
    ASSUME NEW n \in Nat \ {0}, NEW f \in Int, NEW g \in Int, f % n = g % n, f < g
    PROVE g - f >= n
  <1> DEFINE r == f % n
             p == f \div n
             q == g \div n
  <1>1. r \in 0 .. n - 1 /\ q \in Int /\ f = r + p * n /\ p \in Int
    BY ModRange, DivMod
  <1>2. g = r + q * n
    BY DivMod
  <1> HIDE DEF r, p, q
  <1>3. q > p
    <2>1. SUFFICES ASSUME q <= p PROVE FALSE
      BY <1>1
    <2>2. (p - q) * n >= 0
      BY <1>1, <2>1
    <2>3. f - g = (p - q) * n
      BY <1>1, <1>2
    <2> QED BY <2>2, <2>3
  <1> DEFINE t == (q - p - 1) * n
  <1>4. t >= 0 /\ t \in Int
    BY <1>1, <1>2, <1>3
  <1>5. g - f = t + n
    BY <1>1, <1>2
  <1> HIDE DEF t
  <1> QED BY <1>4, <1>5

(***************************************************************************)
(* The playback path: the place of a transfer in a frame.                  *)
(***************************************************************************)
\* The type invariant of the playback path.
PlaybackTyped ==
    /\ gate \in BOOLEAN
    /\ index \in 0 .. Prefetch /\ count \in {0, Prefetch}
    /\ byte \in 0 .. FrameBytes - 1 /\ loaded \in BOOLEAN
    /\ writer \in {"idle", "clear", "reset", "write"} /\ stores \subseteq Stores
    /\ filler \in {"idle", "next", "read", "count", "take", "emit"} /\ left \in Nat
    /\ cycle \in 0 .. MaxLoudCycles /\ openers \subseteq 1 .. cycle /\ fence \in 0 .. cycle
    /\ overlap \in BOOLEAN /\ torn \in BOOLEAN

\* A transfer is under way exactly while it has room; a reset has stores left to make, the gate
\* is shut meanwhile, and a store that met a fill has marked the reset.
ThreadsInStep ==
    /\ filler = "idle" <=> left = 0
    /\ writer = "reset" <=> stores # {}
    /\ Resetting => gate
    /\ writer = "write" => ~gate /\ cycle > 0
    /\ writer = "reset" /\ overlap => torn

\* What a reset that met no fill has stored is still there.
StoresStand ==
    writer = "reset" /\ ~overlap =>
        /\ "byte" \notin stores => filler = "idle" /\ byte = StartByte
        /\ "count" \notin stores => filler = "idle" /\ count = 0

PhaseInv == PlaybackTyped /\ ThreadsInStep /\ StoresStand /\ PhaseKept

\* The invariant holds initially.
LEMMA PhaseInit == PlaybackInit => PhaseInv
  <1> SUFFICES ASSUME PlaybackInit PROVE PhaseInv
    OBVIOUS
  <1>1. PlaybackTyped /\ ThreadsInStep /\ StoresStand
    <2>1. StartByte \in 0 .. FrameBytes - 1 /\ Prefetch \in Nat /\ MaxLoudCycles \in Nat
      BY PlaybackConstants
    <2>2. PlaybackTyped
      <3>1. /\ gate \in BOOLEAN /\ loaded \in BOOLEAN /\ overlap \in BOOLEAN /\ torn \in BOOLEAN
            /\ writer = "idle" /\ stores = {} /\ filler = "idle" /\ left = 0
        BY DEF PlaybackInit
      <3>2. /\ index \in 0 .. Prefetch /\ count = 0 /\ byte \in 0 .. FrameBytes - 1
            /\ cycle \in 0 .. MaxLoudCycles /\ openers \subseteq 1 .. cycle /\ fence \in 0 .. cycle
        BY <2>1 DEF PlaybackInit
      <3> QED BY <3>1, <3>2 DEF PlaybackTyped
    <2>3. ThreadsInStep /\ StoresStand
      BY DEF PlaybackInit, ThreadsInStep, StoresStand, Resetting
    <2> QED BY <2>2, <2>3
  <1>2. (byte + left) % FrameBytes = StartByte
    BY PlaybackConstants, ModSmall DEF PlaybackInit
  <1> QED BY <1>1, <1>2 DEF PhaseInv, PhaseKept

\* What a step does that leaves the place in the frame alone.
LEMMA PhaseSame ==
    ASSUME PhaseKept, byte' = byte, left' = left, ~torn' => ~torn
    PROVE  PhaseKept'
  BY DEF PhaseKept

\* A store of the reset: one that meets a fill marks the reset, and otherwise the byte is the
\* first one again once all stores are made.
LEMMA PhaseAfterStore ==
    ASSUME PhaseInv, NEW s \in Stores, ResetStore(s)
    PROVE  PhaseInv'
  <1> USE DEF PhaseInv
  <1>1. StartByte \in 0 .. FrameBytes - 1 /\ FrameBytes \in Nat \ {0}
    BY PlaybackConstants
  <1>2. /\ overlap' = (overlap \/ filler # "idle")
        /\ torn' = IF stores = {s} THEN overlap' ELSE torn \/ overlap'
        /\ stores' = stores \ {s}
        /\ writer' = IF stores = {s} THEN "idle" ELSE "reset"
        /\ writer = "reset" /\ s \in stores
        /\ UNCHANGED <<gate, timeline, prefetch, filler, left, played, cycle, openers, fence>>
    BY DEF ResetStore, queueVars, history
  <1>3. ~overlap' => /\ filler = "idle"
                     /\ byte' = IF s = "byte" THEN StartByte ELSE byte
                     /\ count' = IF s = "count" THEN 0 ELSE count
    BY <1>2 DEF ResetStore, StoreValue, ResetByte, PlaybackTyped
  <1>4. PlaybackTyped'
    <2>1. byte' \in 0 .. FrameBytes - 1 /\ loaded' \in BOOLEAN /\ index' \in 0 .. Prefetch
          /\ count' \in {0, Prefetch}
      <3>1. /\ byte' \in {StartByte, byte} /\ loaded' \in {FALSE, loaded}
            /\ index' \in {0, index} /\ count' \in {0, count}
        BY DEF ResetStore, StoreValue, ResetByte
      <3>2. 0 \in 0 .. Prefetch
        BY PlaybackConstants
      <3> QED BY <1>1, <3>1, <3>2 DEF PlaybackTyped
    <2>2. stores' \subseteq Stores /\ writer' \in {"idle", "reset"} /\ overlap' \in BOOLEAN
          /\ torn' \in BOOLEAN
      BY <1>2 DEF PlaybackTyped
    <2> QED BY <1>2, <2>1, <2>2 DEF PlaybackTyped
  <1>5. ThreadsInStep'
    BY <1>2 DEF ThreadsInStep, PlaybackTyped, Resetting
  <1>6. StoresStand'
    BY <1>2, <1>3 DEF StoresStand, PlaybackTyped
  <1>7. PhaseKept'
    <2>1. SUFFICES ASSUME ~torn' PROVE (byte' + left') % FrameBytes = StartByte
      BY DEF PhaseKept
    <2>2. ~overlap' /\ left' = 0
      BY <1>2, <1>3, <2>1 DEF PlaybackTyped, ThreadsInStep
    <2>3. CASE stores = {s}
      <3>1. byte' = StartByte
        BY <1>2, <1>3, <2>2, <2>3 DEF StoresStand, PlaybackTyped
      <3> QED BY <1>1, <2>2, <3>1, ModSmall
    <2>4. CASE stores # {s}
      <3>1. ~torn /\ left = 0
        BY <1>2, <2>1, <2>2, <2>4
      <3>2. byte \in 0 .. FrameBytes - 1
        BY DEF PlaybackTyped
      <3>3. byte = StartByte
        BY <1>1, <3>1, <3>2, ModSmall DEF PhaseKept
      <3>4. byte' = StartByte
        BY <1>2, <1>3, <2>2, <3>3
      <3> QED BY <1>1, <2>2, <3>4, ModSmall
    <2> QED BY <2>3, <2>4
  <1> QED BY <1>4, <1>5, <1>6, <1>7

\* A transfer has whole frames, so that it ends where it began.
LEMMA PhaseAtFill ==
    ASSUME PhaseInv, BeginFill
    PROVE  PhaseInv'
  <1> USE DEF PhaseInv
  <1>1. TransferFrames * FrameBytes \in Nat /\ TransferFrames * FrameBytes > 0
    BY PlaybackConstants
  <1> DEFINE room == TransferFrames * FrameBytes
  <1>2. PlaybackTyped' /\ ThreadsInStep' /\ StoresStand' /\ torn' = torn /\ byte' = byte
        /\ left' = room /\ left = 0
    <2> HIDE DEF room
    <2>1. room \in Nat /\ room > 0
      BY <1>1 DEF room
    <2>2. left' = room
      BY DEF BeginFill, room
    <2> QED BY <2>1, <2>2 DEF BeginFill, PlaybackTyped, ThreadsInStep, StoresStand, pipeline, resetVars,
                     history, Resetting
  <1>3. ASSUME ~torn PROVE (byte + room) % FrameBytes = StartByte
    <2>1. byte \in 0 .. FrameBytes - 1 /\ FrameBytes \in Nat \ {0}
          /\ TransferFrames \in Int
      BY PlaybackConstants DEF PlaybackTyped
    <2>2. byte = StartByte
      BY <1>2, <1>3, <2>1, ModSmall DEF PhaseKept
    <2> QED BY <2>1, <2>2, ModAddMany
  <1>4. PhaseKept'
    BY <1>2, <1>3 DEF PhaseKept
  <1> QED BY <1>2, <1>4

\* A byte that is sent leaves room for one less.
LEMMA PhaseAfterByte ==
    ASSUME PhaseInv, EmitByte
    PROVE  PhaseInv'
  <1> USE DEF PhaseInv
  <1>1. FrameBytes \in Nat \ {0} /\ byte \in 0 .. FrameBytes - 1 /\ left \in Nat /\ left > 0
    BY PlaybackConstants DEF EmitByte, PlaybackTyped, ThreadsInStep
  <1>2. byte' = IF byte + 1 = FrameBytes THEN 0 ELSE byte + 1
    <2>1. CASE byte + 1 = FrameBytes
      <3>1. (0 + 1 * FrameBytes) % FrameBytes = 0
        BY <1>1, ModAddMany
      <3> QED BY <1>1, <2>1, <3>1 DEF EmitByte
    <2>2. CASE byte + 1 # FrameBytes
      <3>1. byte + 1 \in 0 .. FrameBytes - 1
        BY <1>1, <2>2
      <3> QED BY <1>1, <2>2, <3>1, ModSmall DEF EmitByte
    <2> QED BY <2>1, <2>2
  <1>3. left' = left - 1
    BY DEF EmitByte
  <1>4. (byte' + left') % FrameBytes = (byte + left) % FrameBytes
    <2>1. CASE byte + 1 = FrameBytes
      <3>1. (left - 1) + FrameBytes = byte + left
        BY <1>1, <2>1
      <3>2. ((left - 1) + FrameBytes) % FrameBytes = (left - 1) % FrameBytes
        <4>1. left - 1 \in Int
          BY <1>1
        <4> QED BY <1>1, <4>1, ModAddOne
      <3> QED BY <1>1, <1>2, <1>3, <2>1, <3>1, <3>2
    <2>2. CASE byte + 1 # FrameBytes
      <3>1. byte' + left' = byte + left
        BY <1>1, <1>2, <1>3, <2>2
      <3> QED BY <3>1
    <2> QED BY <2>1, <2>2
  <1>5. PhaseKept'
    BY <1>4 DEF PhaseKept, EmitByte, resetVars
  <1>6. PlaybackTyped' /\ ThreadsInStep' /\ StoresStand'
    <2>1. byte' \in 0 .. FrameBytes - 1
      BY <1>1, <1>2
    <2>2. (filler' = "idle" <=> left' = 0) /\ filler' \in {"idle", "next"} /\ left' \in Nat /\ filler # "idle"
      BY <1>1, <1>3 DEF EmitByte
    <2>3. UNCHANGED <<gate, timeline, prefetch, index, count, loaded, writer, stores, overlap,
                      torn, cycle, openers, fence, played>>
      BY DEF EmitByte, resetVars, history
    <2> HIDE DEF PhaseInv
    <2>4. PlaybackTyped'
      BY <2>1, <2>2, <2>3 DEF PlaybackTyped, PhaseInv
    <2>5. ThreadsInStep'
      BY <2>2, <2>3 DEF ThreadsInStep, Resetting, PhaseInv
    <2>6. StoresStand'
      BY <2>2, <2>3 DEF StoresStand, PhaseInv
    <2> QED BY <2>4, <2>5, <2>6
  <1> QED BY <1>5, <1>6

\* Every step keeps the invariant.
LEMMA PhaseNext == PhaseInv /\ [PlaybackNext]_playbackVars => PhaseInv'
  <1> SUFFICES ASSUME PhaseInv, [PlaybackNext]_playbackVars PROVE PhaseInv'
    OBVIOUS
  <1> USE DEF PhaseInv
  <1> USE DEF pipeline, queueVars, history, resetVars
  <1>1. CASE SilentCycle
    <2>1. PlaybackTyped'
      BY <1>1, PlaybackConstants DEF SilentCycle, PlaybackTyped
    <2>2. ThreadsInStep'
      BY <1>1 DEF SilentCycle, PlaybackTyped, ThreadsInStep, Resetting
    <2>3. StoresStand'
      BY <1>1 DEF SilentCycle, StoresStand
    <2>4. PhaseKept'
      BY <1>1, PhaseSame DEF SilentCycle
    <2> QED BY <2>1, <2>2, <2>3, <2>4
  <1>2. CASE ClearTimeline
    <2>1. PlaybackTyped'
      BY <1>2, PlaybackConstants DEF ClearTimeline, PlaybackTyped, Stores, ResetStores
    <2>2. ThreadsInStep'
      BY <1>2 DEF ClearTimeline, PlaybackTyped, ThreadsInStep, Resetting, Stores, ResetStores
    <2>3. StoresStand'
      BY <1>2 DEF ClearTimeline, StoresStand, Stores, ResetStores
    <2>4. PhaseKept'
      BY <1>2, PhaseSame DEF ClearTimeline
    <2> QED BY <2>1, <2>2, <2>3, <2>4
  <1>3. CASE LoudCycle
    <2>1. PlaybackTyped'
      <3>1. cycle' \in 0 .. MaxLoudCycles /\ cycle' = cycle + 1 /\ cycle \in Nat
        BY <1>3, PlaybackConstants DEF LoudCycle, PlaybackTyped
      <3>2. openers' \subseteq 1 .. cycle' /\ fence' \in 0 .. cycle'
        BY <1>3, <3>1 DEF LoudCycle, PlaybackTyped
      <3> QED BY <1>3, <3>1, <3>2 DEF LoudCycle, PlaybackTyped
    <2>2. ThreadsInStep'
      BY <1>3 DEF LoudCycle, PlaybackTyped, ThreadsInStep, Resetting
    <2>3. StoresStand'
      BY <1>3 DEF LoudCycle, StoresStand
    <2>4. PhaseKept'
      BY <1>3, PhaseSame DEF LoudCycle
    <2> QED BY <2>1, <2>2, <2>3, <2>4
  <1>4. CASE BeginRefill
    <2>1. PlaybackTyped'
      BY <1>4, PlaybackConstants DEF BeginRefill, PlaybackTyped
    <2>2. ThreadsInStep'
      BY <1>4 DEF BeginRefill, PlaybackTyped, ThreadsInStep, Resetting
    <2>3. StoresStand'
      BY <1>4 DEF BeginRefill, StoresStand
    <2>4. PhaseKept'
      BY <1>4, PhaseSame DEF BeginRefill
    <2> QED BY <2>1, <2>2, <2>3, <2>4
  <1>5. CASE ReadTimeline
    <2>1. PlaybackTyped'
      BY <1>5, PlaybackConstants DEF ReadTimeline, PlaybackTyped
    <2>2. ThreadsInStep'
      BY <1>5 DEF ReadTimeline, PlaybackTyped, ThreadsInStep, Resetting
    <2>3. StoresStand'
      BY <1>5 DEF ReadTimeline, StoresStand
    <2>4. PhaseKept'
      BY <1>5, PhaseSame DEF ReadTimeline
    <2> QED BY <2>1, <2>2, <2>3, <2>4
  <1>6. CASE EndRefill
    <2>1. PlaybackTyped'
      BY <1>6, PlaybackConstants DEF EndRefill, PlaybackTyped
    <2>2. ThreadsInStep'
      BY <1>6 DEF EndRefill, PlaybackTyped, ThreadsInStep, Resetting
    <2>3. StoresStand'
      BY <1>6 DEF EndRefill, StoresStand
    <2>4. PhaseKept'
      BY <1>6, PhaseSame DEF EndRefill
    <2> QED BY <2>1, <2>2, <2>3, <2>4
  <1>7. CASE SkipRefill
    <2>1. PlaybackTyped'
      BY <1>7, PlaybackConstants DEF SkipRefill, PlaybackTyped
    <2>2. ThreadsInStep'
      BY <1>7 DEF SkipRefill, PlaybackTyped, ThreadsInStep, Resetting
    <2>3. StoresStand'
      BY <1>7 DEF SkipRefill, StoresStand
    <2>4. PhaseKept'
      BY <1>7, PhaseSame DEF SkipRefill
    <2> QED BY <2>1, <2>2, <2>3, <2>4
  <1>8. CASE TakeFrame
    <2>1. PlaybackTyped'
      BY <1>8, PlaybackConstants DEF TakeFrame, PlaybackTyped
    <2>2. ThreadsInStep'
      BY <1>8 DEF TakeFrame, PlaybackTyped, ThreadsInStep, Resetting
    <2>3. StoresStand'
      BY <1>8 DEF TakeFrame, StoresStand
    <2>4. PhaseKept'
      BY <1>8, PhaseSame DEF TakeFrame
    <2> QED BY <2>1, <2>2, <2>3, <2>4
  <1>9. ASSUME NEW time \in 0 .. MaxFrame \cup {NoTime}, NEW frames \in IoFrames, WriteCycle(time, frames)
        PROVE  PhaseInv'
    <2>1. /\ writer = "write" /\ writer' = "idle" /\ openers' \subseteq openers \cup {cycle}
          /\ UNCHANGED <<gate, prefetch, index, count, byte, loaded, stores, overlap, torn, filler,
                         left, played, cycle, fence>>
      BY <1>9 DEF WriteCycle
    <2>2. PlaybackTyped'
      BY <2>1 DEF PlaybackTyped, ThreadsInStep
    <2>3. ThreadsInStep' /\ StoresStand'
      BY <2>1 DEF ThreadsInStep, StoresStand, Resetting
    <2>4. PhaseKept'
      BY <2>1, PhaseSame
    <2> QED BY <2>2, <2>3, <2>4
  <1>10. CASE StartStream
    <2>1. /\ writer = "idle" /\ filler = "idle" /\ byte' = StartByte /\ loaded' = FALSE
          /\ index' = 0 /\ count' = 0 /\ fence' = cycle /\ torn' = FALSE
          /\ UNCHANGED <<gate, prefetch, writer, stores, overlap, filler, left, played, cycle, openers>>
      BY <1>10 DEF StartStream
    <2>2. PlaybackTyped' /\ ThreadsInStep' /\ StoresStand'
      <3>1. StartByte \in 0 .. FrameBytes - 1 /\ Prefetch \in Nat /\ MaxLoudCycles \in Nat
        BY PlaybackConstants
      <3>2. PlaybackTyped'
        <4>1. /\ byte' \in 0 .. FrameBytes - 1 /\ count' = 0
              /\ loaded' \in BOOLEAN /\ torn' \in BOOLEAN
          BY <2>1, <3>1, Zenon
        <4>3. index' \in 0 .. Prefetch
          <5>1. 0 \in 0 .. Prefetch
            BY <3>1
          <5> QED BY <2>1, <5>1, Zenon
        <4>2. cycle' \in 0 .. MaxLoudCycles /\ openers' \subseteq 1 .. cycle' /\ fence' \in 0 .. cycle'
          BY <2>1, <3>1 DEF PlaybackTyped
        <4> QED BY <2>1, <4>1, <4>2, <4>3 DEF PlaybackTyped
      <3>3. ThreadsInStep' /\ StoresStand'
        BY <2>1 DEF PlaybackTyped, ThreadsInStep, StoresStand, Resetting
      <3> QED BY <3>2, <3>3
    <2>3. left' = 0
      BY <2>1 DEF ThreadsInStep
    <2>4. PhaseKept'
      BY <2>1, <2>3, PlaybackConstants, ModSmall DEF PhaseKept
    <2> QED BY <2>2, <2>4
  <1>11. CASE UNCHANGED playbackVars
    BY <1>11 DEF playbackVars, PlaybackTyped, ThreadsInStep, StoresStand, PhaseKept, Resetting
  <1> HIDE DEF PhaseInv
  <1> QED BY <1>1, <1>2, <1>3, <1>4, <1>5, <1>6, <1>7, <1>8, <1>9, <1>10, <1>11, PhaseAfterStore,
             PhaseAtFill, PhaseAfterByte DEF PlaybackNext

\* The inductive invariant of the phase: the threads' progress, and the stores of a reset that no
\* fill has met.
THEOREM PhaseInvariant == PlaybackSpec => []PhaseInv
  <1> QED BY PhaseInit, PhaseNext, PTL DEF PlaybackSpec

\* Hence the samples keep their place between the check bytes of a transfer, whatever the two
\* threads did in between, as long as no store of the last reset met a fill.
THEOREM PhaseIsKept == PlaybackSpec => []PhaseKept
  <1>1. PhaseInv => PhaseKept
    BY DEF PhaseInv
  <1> QED BY <1>1, PhaseInvariant, PTL
=============================================================================
