------------------------------ MODULE HalDevice ------------------------------
(***************************************************************************)
(* The device of the CoreAudio plug-in (hal/OpenA8DJHAL.c): who is running  *)
(* IO, the clock, the rate, and the engine below it as the OpenA8DJUSB*      *)
(* functions show it.                                                       *)
(*                                                                         *)
(* StartIO, StopIO, the client calls and the background threads hold        *)
(* gIOMutex, so each is one step, except for the two that call the engine   *)
(* with a rate they read without gClockMutex: those hold gIOMutex over two  *)
(* steps (variable `holder').  A configuration change holds no mutex from   *)
(* one of its steps to the next.                                            *)
(*                                                                         *)
(* The host is external.  It does not run StartIO, StopIO or the client     *)
(* calls while it performs a configuration change, nor the other way round; *)
(* the background threads of the plug-in know nothing of that.              *)
(***************************************************************************)
EXTENDS Integers, FiniteSets, FiniteSetsExt

CONSTANTS
    Clients,        \* the client IDs of the host
    Rates,          \* the sample rates a host asks for
    FirstRate,      \* gSampleRate when the plug-in is loaded
    Sizes,          \* the buffer sizes a host asks for
    PreferredSize,  \* kOpenA8DJPreferredBufferFrames
    MaxStarts,      \* bound on the calls of StartIO
    MaxChanges      \* bound on the configuration changes requested

ASSUME HalConstants ==
    /\ IsFiniteSet(Clients) /\ FirstRate \in Rates /\ PreferredSize \in Sizes
    /\ {MaxStarts, MaxChanges} \subseteq Nat

VARIABLES
    build,      \* OPENA8DJ_BACKGROUND_PREOPEN_ON_INIT, OPENA8DJ_STOP_ISOC_ON_STOP
    clients,    \* gClients
    running,    \* gRunningClients
    clock,      \* gSampleRate, gBufferFrames, gZeroTimeStampSeed, gClockRunning; which anchor
    pending,    \* gPendingSampleRate, gPendingBufferFrames, and what the host was asked to perform
    config,     \* the configuration change being performed
    holder,     \* who holds gIOMutex across a call of the engine
    threads,    \* gStopGeneration and the threads that carry a copy of it
    engine,     \* gEngine
    refused,    \* TRUE after OpenA8DJUSBSetSampleRate failed under running clients
    spent       \* how much of each bound is used

halVars == <<build, clients, running, clock, pending, config, holder, threads, 
             engine, refused, spent>>

None == 0
NoCall == [op |-> "none", client |-> None, rate |-> None]
NoChange == [pc |-> "idle", value |-> None]
NewEngine(rate) == [made |-> TRUE, rate |-> rate, open |-> FALSE,
                    streaming |-> FALSE, unsafe |-> FALSE]
NoEngine == [NewEngine(FirstRate) EXCEPT !.made = FALSE]
Unused == [active |-> FALSE, depth |-> 0]

\* The Makefile builds the first; the second is what the source falls back to.
Builds == {[preopen |-> TRUE, stopIsoc |-> TRUE], [preopen |-> FALSE, stopIsoc |-> FALSE]}

HalInit ==
    /\ build \in Builds
    /\ clients = [c \in Clients |-> Unused]
    /\ running = 0
    /\ clock = [rate |-> FirstRate, frames |-> PreferredSize, seed |-> 1, anchor |-> 1,
                going |-> FALSE]
    /\ pending = [rate |-> None, frames |-> None, asked |-> {}]
    /\ config = NoChange
    /\ holder = NoCall
    /\ threads = [generation |-> 1,
                  sleeping |-> IF build.preopen THEN {[kind |-> "preopen", generation |-> 1]}
                                                ELSE {}]
    /\ engine = NoEngine
    /\ refused = FALSE
    /\ spent = [starts |-> 0, changes |-> 0]

(***************************************************************************)
(* The engine, one outcome for each way a call can end.  stop may run out   *)
(* of its deadlines, close may find a queue that does not retire, opening   *)
(* the device and setting its parameters may fail.                          *)
(***************************************************************************)
Outcome(e, ok) == [engine |-> e, ok |-> ok]

EngineStop(e) ==
    IF e.streaming
    THEN {Outcome([e EXCEPT !.streaming = FALSE], TRUE),
          Outcome([e EXCEPT !.streaming = FALSE, !.unsafe = TRUE], FALSE)}
    ELSE {Outcome(e, ~e.unsafe)}

EngineClose(e) ==
    UNION {IF ~s.ok THEN {s}
           ELSE {Outcome([s.engine EXCEPT !.open = FALSE], TRUE),
                 Outcome([s.engine EXCEPT !.open = FALSE, !.unsafe = TRUE], FALSE)} :
           s \in EngineStop(e)}

EngineEnsureOpen(e) ==
    IF e.open THEN {Outcome(e, TRUE)}
    ELSE IF e.unsafe THEN {Outcome(e, FALSE)}
    ELSE {Outcome([e EXCEPT !.open = TRUE], TRUE)}
         \cup {Outcome(c.engine, FALSE) : c \in EngineClose(e)}

EngineStart(e) ==
    IF e.streaming THEN {Outcome(e, TRUE)}
    ELSE UNION {IF ~o.ok THEN {o}
                ELSE {Outcome(o.engine, FALSE),
                      Outcome([o.engine EXCEPT !.streaming = TRUE], TRUE)} :
                o \in EngineEnsureOpen(e)}

USBStart(rate) ==
    IF ~engine.made THEN EngineStart(NewEngine(rate))
    ELSE IF engine.rate = rate THEN EngineStart(engine)
    ELSE UNION {IF c.ok THEN EngineStart(NewEngine(rate)) ELSE {c} : c \in EngineClose(engine)}

USBSetSampleRate(rate) ==
    IF ~engine.made THEN {Outcome(NewEngine(rate), TRUE)}
    ELSE IF engine.rate = rate THEN {Outcome(engine, TRUE)}
    ELSE UNION {IF ~c.ok THEN {c}
                ELSE IF engine.streaming THEN EngineStart(NewEngine(rate))
                ELSE {Outcome(NewEngine(rate), TRUE)} :
                c \in EngineClose(engine)}

USBEnsureOpen(rate) ==
    EngineEnsureOpen(IF engine.made THEN [engine EXCEPT !.rate = rate] ELSE NewEngine(rate))

USBClose ==
    IF ~engine.made THEN {NoEngine}
    ELSE {IF c.ok THEN NoEngine ELSE c.engine : c \in EngineClose(engine)}

USBStop == IF engine.made THEN {s.engine : s \in EngineStop(engine)} ELSE {engine}

(***************************************************************************)
(* The clock.  A new anchor restarts the sample time; its seed says so to   *)
(* whoever reads the zero time stamp.                                       *)
(***************************************************************************)
Reanchored(c) == [c EXCEPT !.anchor = @ + 1, !.seed = @ + 1]

\* Defect used to test the properties: the rate changes under the old seed.
AppliedRateSilently(rate) ==
    IF clock.rate = rate THEN clock
    ELSE [clock EXCEPT !.rate = rate, !.frames = PreferredSize, !.anchor = @ + 1]

AppliedRate(rate) ==
    IF clock.rate = rate THEN clock
    ELSE Reanchored([clock EXCEPT !.rate = rate, !.frames = PreferredSize])

AppliedFrames(size) ==
    IF clock.frames = size THEN clock ELSE [clock EXCEPT !.frames = size, !.seed = @ + 1]

StartedClock == IF clock.going THEN clock ELSE Reanchored([clock EXCEPT !.going = TRUE])
StoppedClock == [clock EXCEPT !.going = FALSE]

(***************************************************************************)
(* The calls of the host that start and stop IO.                            *)
(***************************************************************************)
MutexFree == holder = NoCall
HostMayCall == MutexFree /\ config = NoChange

AddDeviceClient(c) ==
    /\ HostMayCall /\ ~clients[c].active
    /\ clients' = [clients EXCEPT ![c] = [active |-> TRUE, depth |-> 0]]
    /\ UNCHANGED <<build, running, clock, pending, config, holder, threads, engine,
                   refused, spent>>

\* The first StartIO keeps gIOMutex over the start of the engine.
StartIO(c) ==
    /\ HostMayCall /\ spent.starts < MaxStarts
    /\ spent' = [spent EXCEPT !.starts = @ + 1]
    /\ threads' = [threads EXCEPT !.generation = @ + 1]
    /\ IF running = 0
       THEN /\ clock' = StartedClock
            /\ holder' = [op |-> "start", client |-> c, rate |-> clock.rate]
            /\ clients' = [clients EXCEPT ![c].active = TRUE]
            /\ running' = running
       ELSE /\ clients' = [clients EXCEPT ![c] = [active |-> TRUE, depth |-> @.depth + 1]]
            /\ running' = running + 1
            /\ UNCHANGED <<clock, holder>>
    /\ UNCHANGED <<build, pending, config, engine, refused>>

StartIOReturns ==
    /\ holder.op = "start"
    /\ \E o \in USBStart(holder.rate) :
           /\ engine' = o.engine
           /\ IF o.ok
              THEN /\ running' = running + 1
                   /\ clients' = [clients EXCEPT ![holder.client].depth = @ + 1]
                   /\ clock' = clock
                   /\ refused' = FALSE
              ELSE /\ clock' = StoppedClock
                   /\ UNCHANGED <<running, clients, refused>>
    /\ holder' = NoCall
    /\ UNCHANGED <<build, pending, config, threads, spent>>

\* Defect used to test the properties: the last stop leaves no thread behind.
ForgottenClose == threads

\* pthread_create may fail; the caller then does at once what the thread would have done.
ScheduledClose ==
    [generation |-> threads.generation + 1,
     sleeping |-> threads.sleeping \cup {[kind |-> "close", generation |-> threads.generation + 1]}]

StopAfterLastClient ==
    /\ clock' = StoppedClock
    /\ \E e \in IF build.stopIsoc THEN USBStop ELSE {engine} : engine' = e
    /\ threads' = ScheduledClose

StopAfterLastClientThreadless ==
    /\ clock' = StoppedClock
    /\ threads' = [threads EXCEPT !.generation = @ + 1]
    /\ IF build.preopen THEN \E e \in USBStop : engine' = e
                        ELSE \E e \in USBClose : engine' = e

StillServed == UNCHANGED <<clock, engine, threads>>

\* Defect used to test the properties: any client that leaves stops the device.
StopForAnyone == StopAfterLastClient

StopIfLast ==
    IF running' = 0 THEN StopAfterLastClient \/ StopAfterLastClientThreadless ELSE StillServed

StopIO(c) ==
    /\ HostMayCall
    /\ clients[c].active /\ clients[c].depth > 0 /\ running > 0
    /\ clients' = [clients EXCEPT ![c].depth = @ - 1]
    /\ running' = running - 1
    /\ StopIfLast
    /\ UNCHANGED <<build, pending, config, holder, refused, spent>>

\* What the removed client had started is withdrawn with it.
RemoveDeviceClient(c) ==
    /\ HostMayCall /\ clients[c].active
    /\ LET withdrawn == clients[c].depth
       IN /\ clients' = [clients EXCEPT ![c] = Unused]
          /\ running' = IF withdrawn > running THEN 0 ELSE running - withdrawn
          /\ IF withdrawn > 0 THEN StopIfLast ELSE StillServed
    /\ UNCHANGED <<build, pending, config, holder, refused, spent>>

(***************************************************************************)
(* The background threads: they act only under an unchanged generation and  *)
(* without running clients.                                                 *)
(***************************************************************************)
StillWanted(t) == running = 0 /\ threads.generation = t.generation

Wake(t) == threads' = [threads EXCEPT !.sleeping = @ \ {t}]

DelayedClose(t) ==
    /\ t.kind = "close" /\ MutexFree
    /\ Wake(t)
    /\ IF StillWanted(t)
       THEN IF build.preopen THEN engine' = engine ELSE \E e \in USBClose : engine' = e
       ELSE UNCHANGED engine
    /\ UNCHANGED <<build, clients, running, clock, pending, config, holder, refused, spent>>

PreopenBegins(t) ==
    /\ t.kind = "preopen" /\ MutexFree
    /\ Wake(t)
    /\ holder' = IF StillWanted(t)
                 THEN [op |-> "preopen", client |-> None, rate |-> clock.rate] ELSE holder
    /\ UNCHANGED <<build, clients, running, clock, pending, config, engine, refused, spent>>

PreopenReturns ==
    /\ holder.op = "preopen"
    /\ \E o \in USBEnsureOpen(holder.rate) : engine' = o.engine
    /\ holder' = NoCall
    /\ UNCHANGED <<build, clients, running, clock, pending, config, threads, refused, spent>>

(***************************************************************************)
(* Configuration changes: a property is set, the host calls back to perform *)
(* or to abort what was asked.  A later request of the same kind replaces   *)
(* the value, so one of the two calls back finds nothing.                   *)
(***************************************************************************)
Ask(action) ==
    /\ spent.changes < MaxChanges
    /\ spent' = [spent EXCEPT !.changes = @ + 1]
    /\ UNCHANGED <<build, clients, running, clock, config, holder, threads, engine, refused>>

SetNominalRate(rate) ==
    /\ clock.rate # rate
    /\ Ask("rate")
    /\ pending' = [pending EXCEPT !.rate = rate, !.asked = @ \cup {"rate"}]

SetBufferSize(size) ==
    /\ clock.frames # size
    /\ Ask("frames")
    /\ pending' = [pending EXCEPT !.frames = size, !.asked = @ \cup {"frames"}]

Answered(action) == [pending EXCEPT ![action] = None, !.asked = @ \ {action}]

AbortChange(action) ==
    /\ action \in pending.asked
    /\ pending' = Answered(action)
    /\ UNCHANGED <<build, clients, running, clock, config, holder, threads, engine,
                   refused, spent>>

PerformTakes(action) ==
    /\ config = NoChange /\ holder.op # "start"
    /\ action \in pending.asked
    /\ pending' = Answered(action)
    /\ config' = IF pending[action] = None THEN NoChange ELSE [pc |-> action, value |-> pending[action]]
    /\ UNCHANGED <<build, clients, running, clock, holder, threads, engine, refused, spent>>

PerformFrames ==
    /\ config.pc = "frames"
    /\ clock' = AppliedFrames(config.value)
    /\ config' = NoChange
    /\ UNCHANGED <<build, clients, running, pending, holder, threads, engine, refused, spent>>

PerformRate ==
    /\ config.pc = "rate"
    /\ clock' = AppliedRate(config.value)
    /\ config' = [config EXCEPT !.pc = "usb"]
    /\ UNCHANGED <<build, clients, running, pending, holder, threads, engine, refused, spent>>

\* Defect used to test the properties: the engine is told only when nobody runs.
UsbIsToldIdle == running = 0

UsbIsTold == running > 0

\* The result of OpenA8DJUSBSetSampleRate is ignored.
PerformUsbRate ==
    /\ config.pc = "usb"
    /\ IF UsbIsTold
       THEN \E o \in USBSetSampleRate(config.value) :
                engine' = o.engine /\ refused' = (refused \/ ~o.ok)
       ELSE UNCHANGED <<engine, refused>>
    /\ config' = NoChange
    /\ UNCHANGED <<build, clients, running, clock, pending, holder, threads, spent>>

StartStop ==
    \/ \E c \in Clients : AddDeviceClient(c) \/ StartIO(c)
    \/ StartIOReturns
Background ==
    \/ \E t \in threads.sleeping : DelayedClose(t) \/ PreopenBegins(t)
    \/ PreopenReturns
Configure ==
    \/ \E rate \in Rates : SetNominalRate(rate)
    \/ \E size \in Sizes : SetBufferSize(size)
    \/ \E action \in {"rate", "frames"} : AbortChange(action) \/ PerformTakes(action)
    \/ PerformFrames \/ PerformRate \/ PerformUsbRate

HalTypeOK ==
    /\ build \in Builds
    /\ clients \in [Clients -> [active : BOOLEAN, depth : 0 .. MaxStarts]]
    /\ running \in 0 .. MaxStarts
    /\ clock.rate \in Rates /\ clock.frames \in Sizes /\ clock.going \in BOOLEAN
    /\ pending.rate \in Rates \cup {None} /\ pending.frames \in Sizes \cup {None}
    /\ config.pc \in {"idle", "frames", "rate", "usb"}
    /\ holder.op \in {"none", "start", "preopen"}
    /\ refused \in BOOLEAN
    /\ engine.rate \in Rates

=============================================================================
