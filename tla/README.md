# OpenA8DJ: TLA+ models and proofs

OpenA8DJ drives an eight-channel USB audio and MIDI interface on macOS and Windows. Whether
audio and MIDI keep flowing is decided by a handful of small state machines: who owns a USB
request, who may still complete it after a stop, when a queue may be torn down, when a reader
must be woken, which thread notices the work that another one left. This project models those
machines from the source, model-checks them on small instances and proves, for every instance,
the safety of the request pool and of the runtime behind the macOS bridge, the MIDI core and its
miniport, the macOS engine's counters, control channel, playback cursor and HAL plug-in, and the
isochronous engine, the streams and the control plane of the Windows driver. Paths below are relative to `src/`.

## Inventory

| Part | State | Operations | Interacts with | What is hard | What makes it correct |
| --- | --- | --- | --- | --- | --- |
| Request pool, `core/src/usb_request_pool.cpp` | slots (generation, descriptor, in use), counters | start, stop, submit, complete, cancel_all | called by every class that submits; the USB stack keeps its handles | late, repeated, missing completions; restart in place; unsigned counters | exact live count; a completion retires only its own request; work is conserved |
| Async runtime, `core/src/prepared_usb_async_runtime.cpp`, and the C bridge `src/hal/OpenA8DJPreparedRuntimeBridge.mm` | pool, live limit, counters | create, destroy, submit, complete, cancel_all | macOS engine above, pool below | completions that outlive a session | counters account for every request; no fallback to allocation |
| Persistent transport, `core/src/persistent_usb_transport.cpp` | pool, a ring of live requests per direction, counters | start, prime, complete_next, drain, stop, safety | pool | resubmission fails half way; ring wraps | the rings own the pool; full or drained; a drained session is product safe |
| Submit planner, runtime submitter, lead scheduler (`core/src/usb_submit_plan.cpp`, `prepared_usb_runtime_submit.cpp`, `playback_scheduler*.cpp`) | pending batch, descriptors, a FIFO of live handles, a lead | queue_slot, finish, drain, complete_all | pool or runtime below | batches dropped when a list is full; partial batches at the end; refusals half way | every queued slot waits, is submitted once and in order, or its loss is counted; the playback lead holds |
| Frame ring and transport backend (`core/include/opena8djcpp/audio_ring.hpp`, `prepared_transport.cpp`) | ring cursors | push, pop, clear | device thread and host thread | clear while the other side runs | frames are neither duplicated nor torn |
| Schedules, packets, routing, timecode (`core/src/*.cpp`) | none or little | pure conversions | used by all of the above | rounding, wrap | arithmetic |
| MIDI parent core, `windows/midi/parent/OpenA8DJMidiParentCore.c` | PnP state, two byte rings, notification epoch, callbacks in flight | Prepare, SetState, Open, Close, Read, Write, TakeTxFrame, FaultTx, DemuxEp1, AcquireNotify, CompleteNotify | EP1 reader, miniport, PnP | callbacks without the lock; rundown; reopen | no callback after close; quiet teardown; no stale bytes |
| MIDI miniport, `windows/midi/driver/OpenA8DJMidiMiniport.cpp` | stream state, port | NewStream, SetState, BusNotify, Read, Write | MIDI core, PortCls | edge-triggered notification against SetState | no lost wakeup |
| macOS USB engine, `src/hal/OpenA8DJUSB.m` | streaming, running, unsafe flags, transfers in flight, a serial queue | ensureOpen, start, stop, close, completions, retries, pacing | HAL plug-in, IOUSBHost, EP1, IPC | bounded waits, retries of old sessions, atomics shared by API thread and queue | exact counters; stop that says yes means drained; stream keeps its depth |
| EP1 and IPC of that engine | the pending command, the control shadow, the client slots and their descriptors | sendCommand, writeControls, the accept loop, handlers, the EP1 reader, close | HAL plug-in, control tool, the device | replies without a transaction number; descriptor numbers reused by the process; a close with deadlines | a reply answers its own command; whoever closes finds nobody left; a descriptor is closed by its owner |
| Output timeline and playback pipeline of that engine | a ring of tagged frames, the idle gate, prefetch cursors, the byte in the frame | writeOutput, soft reset, refill, fillPlaybackBytes | HAL I/O thread against the engine's queue | frame numbers that alias in the ring; a reset without a lock beside a fill | what is played is new and in order, and keeps its place between the check bytes |
| Clock anchor, FloatRing of that engine | seqlock, cursors | publish, read, write | HAL I/O thread | lock-free readers | consistent anchor; no torn frames |
| HAL plug-in, `src/hal/OpenA8DJHAL.c` | clients, running count, clock and seed, pending changes, the output buffer of a cycle, stop generation | StartIO, StopIO, client add and remove, delayed close, preopen, SetPropertyData, Perform and Abort of a change, WriteMix | coreaudiod, engine | threads that wake after the decision that started them; a change performed without the mutex; cycles gathered from several calls | the engine streams while a client runs, at the clients' rate; each cycle is written once; an abandoned stream stops |
| Windows isochronous engine, `windows/driver/OpenA8DJUsb.c` | slots, outstanding counters, engine state, generation, work item flags | start, complete, process, fatal stop, purge, release, prepare | WDF targets and work items, ACX, IOCTLs | interlocked words outside the lock; flushes under locks; failing restarts | complete drain barrier; no request crosses generations |
| Windows ACX streams (same file) | stream references and epochs, RT packets, active slots, the stream worker's flags | AllocateRtPackets, PrepareHardware, Run, Pause, FreeRtPackets, ReleaseHardware, EvtStreamWorkItem, notification | the engine above, ACX | start and stop requests that cross; transfers of an earlier run | packets are held while anyone may touch them; epochs do not mix; references return; Run means served |
| Windows control plane and EP1 (same file) | the pending command and its reply, the control shadow, the configured rate, the canary's authorisation, three wait locks, two work items | the IOCTLs, SendBulkCommand, ConfigureAudioParams, one-shot transfers, PrepareHardware, ReleaseHardware | the device, tools, ACX, the engine above | checks and changes under different locks; replies without a transaction number; flushes of work items that take locks; a write that fails although it arrived | what the driver believes of the device is so; a one-shot transfer is alone; no deadlock |
| DriverKit driver (`driverkit/`) | driver state, configuration, bound memory, timestamps; a planner, a pool and a FIFO of handles, or a persistent transport | Start, Stop, StartDevice, StartIO, StopIO, PerformDeviceConfigurationChange, a period | AudioDriverKit, planner, pool, transport | short-circuited completion; starts that fail half way; a configuration changed while memory is bound | requests end with their stream; the directions stay in step; slots are submitted once |
| Windows audio library, installer, tools, control centre | - | - | - | I/O and user interface | not driver logic |

The hazards of these parts, each at its line, are listed in `PROJECT.json`.

## Modules

`UsbRequestPool` holds the request pool as operators on a record: the fields are those of
`PreparedUsbRequestPool`, one operator per method, composed of the method's own steps
(`Accepts`, `Retired`, `AccountCompletion` ...). It has no behaviour of its own; `UsbRequestLifecycle`, `PreparedUsbAsyncRuntime`,
`PersistentUsbTransport`, `UsbSubmitPlanner` and `PlaybackSchedulerRuntime` extend it.
`UsbSubmitPlanner` is in turn a record and operators for its two owners, the runtime submitter
and the DriverKit driver. `OutputTimeline` does the same as the pool for the output ring of the macOS engine, whose two
callers hold its mutex for a whole call. Two specifications are abstract: `UsbRequestLedger`,
which `UsbRequestLifecycle` implements, and `OutputTape`, which `MacPlayback` implements.

| Module | Models | Variables and what they stand for | Actions |
| --- | --- | --- | --- |
| `UsbRequestLifecycle` | one pool, its client, the USB stack | `pool`; `tickets`, the handles the stack holds; histories (`owner`, `serial`, `bumps`, `cancelled`, `completed`, `lost`, `delivery`) that give submissions an identity | the methods; `Complete` takes any ticket at any time, any number of times |
| `UsbRequestLedger` | what a pool promises, without slots and generations | `open`, `live`, `retired` sets of identities | take, retire, restart |
| `PreparedUsbAsyncRuntime` | the runtime behind the macOS bridge | `runtime` (limits, counters, pool) and the same histories over sessions (`issued`, `holder`, `submissions`, `answer`) | BridgeCreate, BridgeDestroy, BridgeQueueSubmit, BridgeSubmitRefused, BridgeComplete, BridgeCancelAll |
| `PersistentUsbTransport` | both queues over one pool | `transport`, with one ring per direction; `position` stands for sequence and timestamp | Start, Prime, CompleteNext, CompleteNextFails, Drain, Stop |
| `UsbSubmitPlanner` | the planner, as operators | a record: the batch of each direction, the descriptors listed, counters | Planned, Flushed, FinishedPlan, Cleared |
| `PreparedUsbRuntimeSubmitter` | planner and pool behind one interface | `submitter`; `live` is its ring of handles | Start, QueueSlot, QueueSlotWithSequence, CompleteAll, Finish, Stop |
| `PlaybackSchedulerRuntime` | the lead scheduler and its binding to a pool | `scheduler`, `binding`; history `heldBack`, a session whose lead began low or whose refill was suppressed | Start, CompletePeriod with any options, a period refused while stopped, Stop |
| `DriverKitDevice` | the DriverKit extension's callbacks, the runtime binding and the skeleton, over the planner or the transport | `driver`; `fifo` is the ring of requests in flight, `stamp` the two slot counters | Start, Stop, StartDevice, PerformDeviceConfigurationChange, StartIO, StopIO, CompletePeriod, FinishBinding |
| `PoolOwners` | composes the five owners of a pool: a process starts any one | their variables | theirs |
| `MidiParentCore` | the MIDI core and its callers | `core`, the C structure; `tokens` and `running`, notify snapshots and callbacks of threads; `waiting`, deferred closes | one per function of the core that changes state |
| `MidiCaptureStream` | the miniport's receive path, composed with `MidiParentCore` | `streamState`, `changing` (how far SetState has come), `port` (PortCls) | the core's, and the three steps of SetState(RUN), BusNotify, the read loop |
| `UsbEngineLifecycle` | the macOS engine's stream lifecycle | `flag`, `api` (program counter of the one API call), `inFlight`, `pipe`, `queue` and `task` (the serial queue and the block it runs), `retries` | one per step between two accesses to what both threads share |
| `OutputTimeline` | the output ring, as operators | a record: `written`, `read`, `max`, `slot` (frame number and the I/O cycle whose sample it is) | Write, ReadFrames, Cleared |
| `OutputTape` | what the ring promises: a tape without an end | `begun`, `tape`, `head`, `given` | Clear, Write, Read, ReadNothing |
| `MacPlayback` | the path from the HAL's write to a filled transfer | `gate`, `timeline`, `prefetch`, `index`, `count`, `byte`, `loaded`; `writer` and `stores`, how far the I/O thread is in a write or reset; `filler` and `left`, how far the queue is in a fill; histories | one per access that the other thread can tell apart |
| `HalDevice` | the HAL plug-in's device and the engine as it sees it | `clients`, `running`, `clock`, `pending` and `config` (a change asked for and being performed), `holder` of the mutex, `threads` that sleep, `engine` | StartIO, StopIO, RemoveDeviceClient, the threads, the property writes, Perform and Abort |
| `HalIoCycle` | the output cycle over `HalDevice` | `io` (the I/O thread), `buffer`, `expected`, `written` | BeginWriteMix, WriteMix, EndWriteMix, SetStreamUsage, the flush of the last stop |
| `MacIpcServer` | the accept loop, its handlers and close | `slots`, `handlers`, `active`, the process's `fdTable`, `closer` | Accept, Register, handler end, CloseFd, close in steps, timeouts |
| `MacControlPlane` | commands, replies, control writes, the EP1 reader over `MacIpcServer` | `channel`, `callers`, commands and replies on the wire, `control` of host and device | Claim, SendOk, ReplyTaken, ReadReply, ReadDeadline, StoreControl, SendControl, ... |
| `WindowsIsoEngine` | the Windows isochronous engine | `ctx`, the words of the device context; `bus`, the requests at the targets; `routines`, completion routines that run; `lock`, `purge` the two wait locks; `workers`, `threads` the program counters | completion in two steps, the process work item step by step, purge in four steps, stop work item, start, callers, PnP |
| `WindowsAcxStreams` | the streams over that engine, whose slots, purge and start appear as far as streams can tell them apart | `stream` (references, epoch, position, notifications), `host` (the ACX callback each stream is in), `dev`, `xfer`, `proc`, `work`, `purge` | the ACX callbacks and work items step by step |
| `WindowsControlPlane` | requests, stream callbacks, work items and PnP over the locks, the words of the device context and endpoint 1; the engine is stopped, running or stopping | `task`, the steps each thread has still to do; `ctl`, the words; `ep1`, `hw`, `lock` | one per step between two points where another thread may see a difference; `Script` lists the steps of each operation |
| `WindowsDriver` | the two views of one Windows device that one run checks, `WindowsAcxStreams` and `WindowsControlPlane`; a behaviour follows one of them | their variables | theirs |
| `FiniteSums` | - | - | lemmas about sums over finite sets |
| `MidiParentCore_proof`, `WindowsIsoEngine_proof`, `PoolOwners_proof` | - | - | theorems about the module of that name; `MidiParentCore_proof` is also about `MidiCaptureStream`, `PoolOwners_proof` about the modules that `PoolOwners` composes |
| `UsbRequestPool_proof`, `MacUsbEngine_proof`, `MacAudio_proof`, `WindowsDriver_proof` | - | - | theorems about `UsbRequestLifecycle` and `PreparedUsbAsyncRuntime`; about `UsbEngineLifecycle`, `MacIpcServer` and `MacControlPlane`; about `HalDevice`, `HalIoCycle` and `MacPlayback`; about `WindowsAcxStreams` and `WindowsControlPlane` |

A section of code that holds the lock guarding everything it touches is one step. Where the
code reads or writes shared words outside a lock, every access that another thread could tell
apart is a step of its own; the merges that remain are justified where they are made.
Data are abstracted: a MIDI byte is the run it was queued in, a sample is the I/O cycle that
wrote it, an isochronous transfer is "data", "empty" or "error", a size is one of two. Deadlines are choices: a bounded wait may
end at any moment. Operators under a comment "Defect used to test the properties" belong to
no specification; each is a plausible mistake in the code, and the property named for it in
`PROJECT.json` fails when it replaces the operator that follows it.

## Runs and what they show

| Run | Shows | Bounds |
| --- | --- | --- |
| `request_lifecycle` | counts and byte totals are exact, a completion retires only its own request, the pool implements the ledger | 2 slots, 3 generations, 3 submissions: a slot is reused and the generation wraps once; late and repeated completions unbounded |
| `pool_owners` | what each of the five owners counts or queues as live is what its pool has live, and nothing is live after a stop; the runtime's completions match within a session; gathered slots are submitted once, in order, or counted as lost; the directions of a DriverKit stream stay in step; a drained transport is product safe and the lead stays above its low watermark | 4 slots; runtime: 3 submissions a session, sessions unbounded; transport: every pair of depths that fits (both rings wrap), 9 completions, 1 failure; DriverKit: 2 streams, each planned (2 slots, batches of 1 or 2, completion depths 1 and 2, retaining or not, 3 slots a direction) or persistent (2+1, 2+2, 3+1, and 3+2, which is refused); submitter: 3 slots a direction, limits 1 and 2; lists of 5 descriptors, so that a retaining stream fills its own; scheduler: a pool of 3, starts with 2 or 3 slots, low watermark 1 or 2, high 3, 3 periods and, of a stopped binding, 3 refused ones; 20 generations, more than any needs |
| `midi_parent_core` | callbacks have owners and the count in flight is theirs, teardown is quiet, no byte crosses a reset, a stop runs down | 2 threads, 2 clients, 2 runs, ring of 2 |
| `midi_capture_stream` | no lost wakeup; received bytes get a read loop | the same, frames of one byte: the ring's edge is met at every fill level |
| `usb_engine` | counters are exact over start, stop, close, refused submissions, missing transfers and expired waits; a yes of stop means drained; a stream keeps its depth, but for captures that found no transfer, and captures reach the bus while one chain has always found one | 2 chains, lead 2, 2 sessions, 1 stop, 2 refusals or missing transfers: both chains may be given up |
| `mac_playback` | the ring reads like a tape without an end; what is played is new and in order; transfers keep their place in the frame | ring of 4 frames, high water 2, latencies 1, prefetch 2, frames of 2 bytes, 3 loud cycles of 2 frames, frame numbers to 5: cycles overlap, leave gaps, jump, come late, and wrap the ring |
| `mac_control_plane` | close finds nobody left, descriptors are closed by their owner, a reply answers its command | 2 connections, 2 descriptors, 2 opens, 2 commands of 2 codes, 1 control write |
| `hal` | the engine streams for the clients and at their rate; cycles are written once; the seed names the timeline; an abandoned stream stops | 2 builds (background preopen and streams stopped with the last client, or neither), 2 clients, 2 starts, 1 configuration change, 2 streams, 2 cycles |
| `windows_iso_engine` | counters exact, a stopped engine is quiet, no stranded completion, every purge drains | 2 slots a direction (order between slots matters), 1 start, 1 failure, which a slot survives |
| `windows_iso_liveness` | every stop, also one a ReleaseHardware waits for, comes to an end: locks, purges and flushes do not wait in a circle; release finds a drained engine; no request crosses generations | 1 slot, 2 starts, 2 prepares (the second may fail), 1 failure, one overtaken routine |
| `windows_streams` | packet memory is held while anyone may touch it; transfers, positions and notifications stay in their epoch; references are given back. And in the control plane: parameters that count as configured have the device's rate, and keep it while a stream claims the worker, and a control state that counts as known is the device's, unless the diagnostics say that the device did not take over the last write (`DeviceAsBelieved`); a one-shot transfer is alone and was armed; threads that wait for each other's locks, flushes and replies never all wait | 1 render and 1 capture stream, 1 slot, packets of 1 frame, 2 runs, 4 prepares, 1 transfer, 1 failure; for the control plane 2 modes, 2 rates, 2 attempts, and one of 8 budgets (`DriverBudgets`) of at most 3 requests, 2 Run callbacks and 2 failures, late replies or removals |
| `windows_streams_served` | that a Run which succeeded is served does not hold | the streams without transfers and failures |

`windows_streams_served` ends in a counterexample, a disagreement between the code and what
the repository says of it, described under "findings" in `PROJECT.json`: Pause looks for
active streams and sets `StreamStopRequested` in two steps; a Run of the other stream in
between reports success, and the late request then stops its engine for good.

The properties also have limits that are the code's; each is written where it is stated:

- `CountersExact` (in `TransfersAccounted`) leaves playback out after an undrained session: after a stop that timed out
  `_running` is still set, `ensureOpen` accepts before it looks at `_retirementUnsafe`
  (`OpenA8DJUSB.m:4959`), and the next session resets a counter of transfers in flight.
- `DepthSustained` and `CaptureFlows` leave out the captures that a session gave up because
  `checkoutTransferFromPool` had no transfer for them: `queueCaptureTransfer` then counts a
  `captureQueueFailures` and returns without a retry (`OpenA8DJUSB.m:5843`), so that chain does not
  come back until the next start. The default build falls back to allocating a transfer, and only
  a failed allocation leads here; with the strict transfer pool an exhausted pool is enough. A
  stream that gave up every chain is silent until it is stopped.
- `RequestsAccounted`, `ReleaseSucceeds`, `StoppingEnds` and `OrderedPurgeDrains` are stated for
  behaviours in which no completion routine is overtaken: it publishes its slot before it
  retires the request (`OpenA8DJUsb.c:5482`), and a process work item that resubmits the slot
  in between leaks an outstanding count.
- `ReleaseSucceeds` and `OrderedPurgeDrains` leave out a PrepareHardware that failed half way
  (`OpenA8DJUsb.c:1276`): a slot that was never allocated does not count as idle, so that a
  purge of such a transport, which has nothing to drain, does not end in Stopped.
- `SessionCompletionsMatch` speaks of completions within their session: a new async runtime
  has a new pool whose generations start at 1 again.
- `DirectionsInStep` is stated for queue depths that divide the ring. `validate_stream_config`
  accepts others; once the ring has wrapped, a capture request is then resubmitted into an
  unexpected slot, and `capture && playback` (`audio_driver_skeleton.cpp:366`) leaves the
  playback request of that period uncompleted.
- `SlotsSubmittedOnce` allows a batch to be dropped, and counted, when the list of a stream that
  retains its descriptors is full (1024 in the code, `usb_submit_plan.cpp:135`); from then on it
  claims only that the list is full.
- `LeadHolds` (in `SafetyReportsHold`) speaks of sessions that began at or above the low watermark
  and were never told to suppress a refill: `start` submits at most one batch, also when the
  target is more. Without `capture_submit_every_period` the scheduler counts a capture gap while
  its binding submits the capture slot; the property compares the binding's own counters.
- `CallbacksHaveOwners` counts a close as pending when another client has opened the slot
  before the callback returned: its drain is then not reported.
- `ReplyAnswersItsCommand` assumes that a command whose send failed did not arrive
  (`HalfSent = FALSE`); otherwise its reply, which carries no transaction number, answers the
  next command of the same code. After the EP1 reader's deadline the engine may be opened
  again over its old server; that is modelled, and no property says whom that server serves.
- `DeviceAsBelieved` leaves out two situations that histories name. `abandoned`: a
  configuration that failed between reset and commit leaves `AudioParamsConfigured` and the old
  rate, with which a later one takes the fast path (`OpenA8DJUsb.c:8036`) although the device has
  no rate or another. `stale`: a late reply to an earlier command was taken for the answer to a
  later one of the same code, since replies carry no transaction number (7026).
- `DeviceAsBelieved` also allows a control state that is not the device's while
  `LastControlWriteMismatch` says so. A device may take over less than what was written
  (`docs/WINDOWS_NOTES.md:82` and 127 tell of ground bits that are masked or only read back); after a
  read-back unlike the write the request fails (`OpenA8DJUsb.c:7767`) and `RawControlState` stays as it
  was, while `ControlsHardwareReady` is already TRUE (7707), if need be for the first time. The
  property says that the sign is there, and that requests refused in between do not
  take it away, until the next successful read or write brings the two together.
- `DeviceAsBelieved` speaks of the configured parameters and the claim of the stream worker. It
  used to say that a running engine has the rate of the device, which is not so: a drain clears
  the claim (`TrySignalPersistentIsoDrained`, 4996) while the stream work item is on its way, the
  end of a STOP clears `StreamStopRequested` (9001), and the work item then starts an engine that
  nobody claims; a later Run finds no claimed worker and sets another rate under it. The budgets
  of the run are too small for that; TLC showed it with larger ones when the proof did not go
  through.
- `SomeoneGoesOn` is the absence of deadlock, with every wait of `SendBulkCommand` ended by its
  two seconds; that each thread gets the locks that become free again is not claimed.
- `PlayedFreshInOrder` and `PhaseKept` make no claim while a reset has met a fill (`torn`):
  the plain stores of `softResetPlaybackPipeline` may then be lost, until the next clean reset.

### Bounds

`MaxSubmits <= MaxGen` and `MaxAccepted <= MaxGen`: a pool issues fewer requests than a generation counter has values
(2^32), so a handle cannot meet its own generation again. Without it the claim is false, in
the code as in the model. `DepthsDivideRing`: the transport's queue index wraps at 128 while
the slot is chosen modulo the depth (`persistent_usb_transport.cpp:263`), so the two agree only
for depths that divide the ring (4 and 8 are in use). `MaxEpoch`: the 64-bit notification epoch
does not wrap. `MaxDescriptors` is the code's own limit, made small enough to be met. `CounterSize` is small on purpose, so that a decrement below zero is seen;
`CaptureCounterHolds`, `MaxSessions * CaptureDepth < CounterSize`, keeps it from wrapping upwards:
sessions that end undrained leave their captures counted, and the code's counter has 32 bits.
`HalfSent = FALSE`, `IpcNames`, `CodeNames` and `LockHolders` are explained with the proofs.
`WriteAttempts` and
`ReadRounds` are 2 instead of 3: a first and a last attempt. Each budget of the control plane
picks the requests that meet each other in a hazard; under `Nothing` the streams go instead.
`MaxOvertaken` is 1 where the run must survive an overtaken routine and 0 elsewhere; unbounded,
the leaked counts would make the state space infinite. `RetryLimit` is 1 instead of 3 in
`windows_iso_engine`, where a slot survives its first failure, and 0 in `windows_iso_liveness`,
where the first one is fatal; slots are 1 or 2 instead of 8: a second slot is what order and
pairing need. `MaxStarts`, `MaxRuns`, `MaxSessions` are 2 where leftovers of an earlier session
matter, and 1 where they do not; `MaxQueued`, `MaxPeriods`, `MaxStreams`, `MaxPrepares`, `MaxChanges`, `MaxUsages`, `MaxCommands`,
`MaxWrites`, `MaxCycles`, `MaxLoudCycles`, `MaxRefused` and `MaxFrame` bound the work of callers, which nothing in the code
bounds. The sizes of `mac_playback` keep the order of the real ones, target latency below high
water below capacity, restart latency at most start latency; the ratio of its half, 2, to a
cycle, 2, lets a write begin beyond it. Every bound is a guard of the action it limits.

What is assumed of the outside, each marked external in the map: coreaudiod serialises
configuration changes with StartIO and StopIO, ends its I/O cycles before it stops the last
client, and starts the cycle counter anew with a session; ACX calls one stream's callbacks one
at a time; Pause's wait expires only while a transfer at the bus holds the stream; IOUSBHost
completes every transfer on the engine's queue; the device takes commands in order, takes over a
written control state whole, in part or not at all, and may lose or hold back a reply; playback transfers are whole frames, as the captured packets that they
answer are. The default build ignores sample times; `MacPlayback` has both.

Runs with `CHECK_DEADLOCK FALSE` are those of systems that really stop: a removed device, a
released driver, or an engine with nobody calling it.

### Fairness

`MidiParentCore!FairSpec`: clients close their slots when the device stops, callbacks return,
the controller asks for OFFLINE again; receiving and dispatching are not assumed.
`MidiCaptureStream`: threads inside SetState and BusNotify go on, snapshots are dispatched,
PortCls answers a notification and reads on. `UsbEngineLifecycle!FairSpec`: the API thread,
the serial queue, its block and the retry timer go on (libdispatch).
`WindowsIsoEngine!FairSpec`: the bus completes or cancels every request, queued work items and routines run, purges and flushes go on, and the stop work item gets the
purge lock that becomes free again and again although other callers purge (strong fairness for
the steps of the stop work item, two of which acquire a lock, weak fairness for all else). Nothing is assumed of the callers.
`HalIoCycle!FairSpec`: the threads that sleep wake up, and whoever holds the mutex goes on.
The other specifications state none: their properties are about what may never happen.

## Proofs

Each theorem holds for every value of the constants that its module's assumptions allow; the
runs evaluate those assumptions on their small instances. A property is proved from an
inductive invariant that implies it: `Init => IInv`, `IInv /\ [Next]_vars => IInv'` and
`IInv => Property`. A lemma for each action, or for each part of the
invariant, says what it preserves; what the helpers of a model do to its records is stated once
and cited.

| Module | Theorems, and the properties they state | From |
| --- | --- | --- |
| `UsbRequestPool_proof` | `TypeCorrect` (`TypeOK`), `LiveCountCorrect` (`LiveCountExact`), `CompletionSafety` (`CompletesItsOwnRequest`), `WorkIsConserved` (`WorkConserved`), `PoolImplementsLedger` (`ImplementsLedger`); of the bridge `SessionSafety` (`SessionCompletionsMatch`), `LifecycleIsOwned` (`LifecycleOwned`, a part of `OwnersMatchTheirPool`) | `PoolConstants`, `LifecycleConstants`; `RuntimeConstants` |
| `MidiParentCore_proof` | `CallbacksOwned` (`CallbacksHaveOwners`), `TeardownQuiet` (`TeardownIsQuiet`), `NoByteCrossesRuns` (`NoStaleBytes`), `NoWakeupLost` (`NoLostWakeup`, of `MidiCaptureStream`) | `ParentConstants` |
| `PoolOwners_proof` | `SafetyReportsAreKept` (`SafetyReportsHold`), from `TransportSafety` (`QueuesOwnThePool` and `DrainedIsProductSafe` of the persistent transport) and `LeadSafety` (`SlotsSubmittedOnce` and `LeadHolds` of the scheduler) | `PoolConstants`, `OwnersConstants` |
| `MacUsbEngine_proof` | of the streams `CountsAreTrue` (`TransfersAccounted`), `CapturesAreKept` (`DepthSustained`); of the server and the commands `DescriptorsHeld`, `CloseLeavesNobody` (`CloseIsClean`), `RepliesAreOwn` (`ReplyAnswersItsCommand`) | `EngineConstants`, `CaptureCounterHolds`; `IpcConstants`, `IpcNames`, `ControlConstants`, `CodeNames`; the last theorem also `HalfSent = FALSE` |
| `MacAudio_proof` | `PluginTypes` (`TypeOK`), `StartsAddUp`, `ClientsServed` (`StreamsForItsClients`), `RatesAgree` (`RateAgrees`), `SeedsNameTimelines` (`SeedNamesTimeline`), `CyclesOnce` (`CyclesWrittenOnce`); of the playback `PhaseIsKept` (`PhaseKept`) | `HalConstants`, `CycleConstants`; `PlaybackConstants` |
| `WindowsIsoEngine_proof` | `CountsAreExact` (`RequestsAccounted`), `NothingIsStranded` (`NoStrandedCompletion`), `GenerationsApart` (`GenerationFence`), `PurgesDrain` (`OrderedPurgeDrains`), `ReleasesSucceed` (`ReleaseSucceeds`) | `EngineConstants`, `LockHolders` |
| `WindowsDriver_proof` | `ReferencesReturn` (`ReferencesAccounted`), `PacketsStayHeld` (`PacketsHeld`), `EpochsDoNotMix` (`EpochsKeptApart`); of the control plane `OneShotsHaveTheBus` (`OneShotsAlone`), `DeviceIsAsBelieved` (`DeviceAsBelieved`) | `StreamConstants`; the control plane needs none |

`IpcNames`, `CodeNames` and `LockHolders` only say that the values a model uses for "nobody" are
not names of threads, connections or codes. `HalfSent = FALSE` is the limit of the property
named above. What follows is why each property needs more than itself.

**Request pool.** That the count is exact needs that slots in use lie within the configured
ones, so `BusyConfigured` is added (a restart clears only what it configures). That a handle's
generation identifies its request needs history: a slot's generation is a function of how often
the slot was retired (`GenerationsCount`), the function is one-to-one because retirements are
fewer than generations, and so a handle whose generation is current was issued since the last
retirement and its request still has the slot (`TicketsCurrent`). `BooksAgree` says that the live,
completed and cancelled totals add up to the submitted ones; since the live total is a sum over
the slots in use, it rests on `FiniteSums`. That the pool implements the ledger is proved step by
step: with `IdentityInv` (no two slots hold the same request, a live request is neither retired
nor lost, its handles are the current ones) every step takes, retires or restarts as the ledger
does, or leaves the ledger's variables alone.

**macOS bridge.** `SessionInv`: a slot's generation has moved on at most once for each submission
that the session accepted (`GenerationsEarned`), so none comes back while the session lasts; a
handle issued in it is of its slot's present generation only while its own submission is in the
slot (`HandlesCurrent`). That the runtime owns its pool, `BridgeOwned`, has to hold of the runtime
that a refused start leaves as well.

**Owners of a pool.** The constants `SubmitterConfigs`, `DriverConfigs` and `LeadConfigs` are the
configurations that a caller may ask for; the theorem is about every set of them, valid or not,
since `start` refuses the others. A process steps one owner at a time (`OneOwnerSteps`), so each has an
invariant of its own. *Persistent transport*, `TransportSafe`: where the depths divide the ring
(`InStep`), a primed transport is `Full`, or `Empty` once it is drained. Full means that the pool has the first `capture + playback` slots in use and no
others, and that the request at each place of a queue is live in the slot of that place (`Held`),
with consecutive positions (`Linked`). It is inductive because a completion frees the one slot that
the pool, which takes the lowest free slot, then hands out again, and because going round a ring of
`MaxSlots` places then goes round the slots of the direction in step (`RingInStep`).
While a transport primes, `Filling` says that the first k slots are taken, the capture slots before the
playback slots. `Counted` says what the counters of `safety()` then are. *Lead scheduler*, `LeadInv`: the
slots submitted are those completed and the lead, the lead fits the pool, its minimum has not
sunk below the low watermark unless a refill was held back, and what the scheduler counts is what
the binding submitted (`LeadAgrees`). The operators of the pool that these owners use are the ones of
`UsbRequestPool` (`SchedulerPool`, `TransportPool`); what they do to a pool in an owner's hands is
stated once, with `Sound`, which leaves open what else a descriptor holds.

**MIDI core and miniport.** `IInv` adds a reset before any state that moves bytes (`RunsBegun`),
bytes of the present run in every state and not only while I/O is accepted (`RingsOfThisRun`), the
exact count with the finiteness of `running`, one callback to a thread and an owner for each. No
part is inductive alone: that a drain releases the waiting clients only when no callback is left,
and that a teardown is quiet, both need the count to be exact. `WakeupInv` adds to it two facts about
the moments at which bytes could become readable without a DemuxEp1: the stream of a client that
does not exist yet is stopped, and I/O is first accepted on an empty ring.

**macOS engine.** A counter is exact only if it does not wrap, so `CaptureInv` bounds the captures of
all sessions so far by what the sessions may have submitted: a chain of captures is on the bus, in
a completion that waits, in the running block, before a retry or among the rounds that a worker has
still to go, and the counter is the sum of those in flight. That `start` may reset the playback counter needs to know that after
a stop that drained no block is past its checks of `_streaming` (`Hot`), and that no later one is. The chains a session gave up
are counted in `used.starved`: what is alive and what was given up add up to the depth at least.

**IPC server and commands.** `HoldInv` follows a connection from accept to close: it is in the hands
of the accept loop or of one handler, which holds a number that names that connection in the
process's table, so nobody closes somebody else's. `QuietInv` adds that a writer is a handler that
is still counted, and that close comes to wait for the handlers only when the reader and the
accept loop have gone. `ReplyInv`: while the channel is valid, at most one command is between
`sendCommand` and the reader, on one pipe or in `_pendingReply`, and it is the waiting caller's.

**HAL plug-in.** `EngineServes` ties the running count, the rate of the clock and the rate that an
asked-for change is going to set to the engine, through the calls that hold the mutex while the
engine starts. `CountInv`: an inactive client has no starts and one whose StartIO is under way is
active, so the subtraction of `RemoveDeviceClient`, which stops at zero, is never cut off.
`CycleInv` says of which cycle the buffer is, that it comes after all that were handed on, and that
it has been handed on before a counter starts at 1 again.

**macOS playback.** `PhaseInv`: whatever a reset that met no fill has stored is still there
(`StoresStand`), and which thread is where decides the gate and what is left of a transfer
(`ThreadsInStep`).

**Windows isochronous engine.** The heart is `FoundInv`: a slot that the work item could process is
`Attended`: its completion routine has still to queue the work, or the work is queued, or the
worker has not passed its direction yet, or `ProcessPending` will be seen by the worker that
finishes. A flush of the work item leaves none of these, so no slot is left that could be processed;
since the slots that wait are those in the order (`OrderOk`), and the oldest of an order can always
be processed once its pair is free (`PairInv`), no slot waits at all, and the purge drains. That the
counters are then zero is `FlightOk`. A start relies on `StopInv`, a stopped engine is quiet, and a
release on `PnpInv`, nothing starts or purges the engine between its own purge and the flushes.
`OrderedPurgeDrains` used to be stated for every transport; the proof attempt showed that it fails
for one that was allocated in part, which the run's single prepare had hidden.

**Windows ACX streams.** References are counted by who has them: `RefsCounted` says that a stream's
count is the number of output slots with a reference to it and of the work item's hand.
`HandsCurrent`, a stream in the hand is in the epoch and state in which it was acquired, holds
because Pause waits for the work item. `LoadsCover` adds to the position the frames that slots of the
present epoch have not played yet, which is what bounds it by the frames loaded.

**Windows control plane.** A thread is a script of steps, so the invariants speak of what is left
of it. `AloneInv`: a thread holds `IsoPurgeLock` exactly when what is left of its script is one of
the endings that begin under it; nobody else is in such an ending, and the engine stopped and the
streams inactive before a one-shot transfer began. `Placed` says the same of `BulkCommandLock`,
held while a command is out, and of `AudioConfigLock`. With it `RateStands`: from the reset to the
commit of a configuration, and only there, the device may have another rate than the context; a
configuration is not begun while the worker is claimed and the parameters are configured; and
what arrived at the device is what the commit stores. `ControlStands`: from the moment a request
sends a write until it confirms or refreshes the state, nothing is claimed of `RawControlState`;
at any other time it is the device's, or the last write was read back unlike and the mismatch
is set. In between, a reply that waits, unless it is an old one, tells the device's state, so what a
refresh stores is true again.
`BelievedInv` is the conjunction.

`FiniteSums` proves what the folds of the community modules compute: they are functions defined by
recursion over subsets, and each lemma takes a least counterexample, since the library's induction
theorems have an operator as parameter, which the installed provers cannot instantiate.

Only model-checked: all liveness, and the absence of deadlock `SomeoneGoesOn` (the prover has no
rule for fairness and ENABLED); that `MacPlayback` implements `OutputTape` and plays in order; and,
of the owners of a pool (`PoolOwners`), the runtime submitter and the DriverKit stream, hence
`OwnersMatchTheirPool`, `SlotsSubmittedOnce` and `DirectionsInStep` as a whole. Of their parts those of
the bridge, the transport and the scheduler are proved.

## Not modelled

Sample conversion, packet layout, routing, timecode and schedules are pure arithmetic. In
`WindowsIsoEngine` the requests and callbacks of the Windows driver appear only as callers that
start, stop and purge the engine at any time; in `WindowsControlPlane` the engine has no slots,
its resources are always destroyed at a release, and a tone burst is two transfers long. The
GET queries, `SetRenderPacket` and the end of stream, streams with different rates, the settling
of a rate after a change and the interpolation of the running clock are left out, and so are the
virtual-device build and the synchronous stream loop that `OpenA8DJ_EvtStreamWorkItem` falls back
to (6600). The macOS engine is modelled as built by default: not the timer-driven pacing nor the
prepared-runtime option (whose runtime has its own module); its clock anchor, FloatRing, the MIDI
bytes over EP1, the broadcasts and the payloads of commands are left out. Of the HAL plug-in:
device presence, the input cycle, the limit of 64 clients, the zero timestamps read from the
engine, and the answers to property queries. Of the MIDI core: LED, control and status payloads.
The frame ring and the transport backend have no module; the audio frames of a DriverKit stream,
the layout of its memory and the zero timestamps after a stream's first are left out, and so are
the ratios and verdict strings of `safety()`. Two hazards in the list have no property: two handlers that send
the control state in the order other than they stored it (`OpenA8DJUSB.m:3457`), of which nothing
in the source says what should hold, and capture slots that fail until none is left
(`OpenA8DJUsb.c:5956`), which needs as many failures as slots times the retry limit. Installers, tools and
applications are not driver logic.

## Plan

1. `SpscFrameRing`, with a sequence of frames as its abstract specification, and its clear
   beside a reader (`audio_ring.hpp:123`); FloatRing; the clock anchor as a seqlock.
2. The MIDI render path over `MidiParentCore`; the rate settling of the Windows driver.
3. Bounded checks of the isochronous schedule's arithmetic.
4. Proofs: the runtime submitter and the DriverKit stream, on top of the lemmas of `PoolOwners_proof`
   about a pool in an owner's hands; that `MacPlayback` implements `OutputTape`.
